---------------------------- MODULE Spec2Model ----------------------------
(***************************************************************************)
(* Bayesian Knowledge Tracing core of master_creator_mvp:                  *)
(*   - BayesianKnowledgeTracing (engine_5_diagnostic.py): update,          *)
(*     _update_correct, _update_incorrect, bulk_update, get_confidence     *)
(*   - DiagnosticEngine tier classification and                            *)
(*     update_mastery_from_assessment (engine_5_diagnostic.py)             *)
(*   - StudentModelInterface mastery store (student_model/interface.py)    *)
(*   - StudentModelInterface prediction log: log_prediction,               *)
(*     update_prediction_outcome, get_prediction_accuracy                  *)
(*   - FeedbackLoop (engine_6_feedback.py): generate_feedback,             *)
(*     apply_parameter_updates and their helpers                           *)
(*                                                                         *)
(* Python floats are modelled as exact rationals <<n, d>> in lowest terms  *)
(* with d > 0.  A raised ZeroDivisionError is the value <<0, 0>>, which    *)
(* every arithmetic operator propagates, as an exception propagates up the *)
(* Python call stack.                                                      *)
(***************************************************************************)
EXTENDS Integers, Sequences, FiniteSets, TLC

VARIABLES
    bkt,            \* BayesianKnowledgeTracing instance: p_learn, p_guess, p_slip, initial_mastery
    prior_mastery,  \* the prior the caller started from
    mastery,        \* the caller's running mastery value (result of the last call)
    history,        \* every observation passed to update / bulk_update so far, in call order
    arg_prior,      \* the prior_mastery argument of the last call
    last_call,      \* name of the last BKT method the caller invoked
    mastery_data,   \* the mastery_data table: rows in mastery_id order
    calls,          \* number of Student Model / Engine 5 calls made so far
    folded,         \* per (student, concept): observations passed to update_mastery_from_assessment
    assessed_only,  \* per (student, concept): written only by update_mastery_from_assessment
    last_estimate,  \* the StudentMasteryEstimate Engine 5 returned last
    caller,         \* per concurrent caller of update_mastery_from_assessment: its locals
    race_prior,     \* the prior the concurrent callers' pair had before either ran
    cls,            \* inputs and outputs of the tier / confidence classification
    predictions,    \* the predictions table: prediction_id -> PredictionModel row
    report,         \* what the last Feedback Loop / prediction-log call returned
    fb,             \* the Feedback Loop helper last called, its arguments and its result
    pipeline,       \* MasterCreatorPipeline.run: its position, locals and the output it returned
    graph,          \* the LangGraph run: PipelineState, the node to run next, the nodes executed
    grading,        \* AssessmentGrader.grade_submission: graded questions and the calls it made
    tier_assignments \* what get_students_by_tier returned last

harnessVars == <<prior_mastery, mastery, history, arg_prior, last_call>>
storeVars == <<mastery_data, calls, folded, assessed_only, last_estimate>>
raceVars == <<caller, race_prior>>
feedbackVars == <<predictions, report, fb>>
workflowVars == <<pipeline, graph, grading, tier_assignments>>

vars == <<bkt, prior_mastery, mastery, history, arg_prior, last_call,
          mastery_data, calls, folded, assessed_only, last_estimate,
          caller, race_prior, cls, predictions, report, fb,
          pipeline, graph, grading, tier_assignments>>

---------------------------------------------------------------------------
(* Bounds of the model *)

\* longest total observation sequence a caller feeds to the estimator
MaxObs == 3

\* number of Student Model / Engine 5 calls in one run of the store
MaxCalls == 2

\* longest observation list of one update_mastery_from_assessment call
MaxAssessment == 2

\* largest num_observations handed to the confidence classification
MaxNumObs == 12

\* longest mastery sequence handed to _calculate_accuracy_metrics
MaxSeries == 2

\* largest number of answered questions in a graded submission
MaxQuestions == 3

---------------------------------------------------------------------------
(* Float arithmetic as exact rationals *)

RECURSIVE GCD(_, _)
GCD(a, b) == IF b = 0 THEN a ELSE GCD(b, a % b)

Abs(i) == IF i < 0 THEN -i ELSE i

ZeroDivisionError == <<0, 0>>

Norm(n, d) ==
    LET g == GCD(Abs(n), Abs(d))
        s == IF d < 0 THEN -1 ELSE 1
    IN  <<(s * n) \div g, (s * d) \div g>>

Raised(x) == x = ZeroDivisionError

\* x + y over the least common denominator
FAdd(x, y) == IF Raised(x) \/ Raised(y) THEN ZeroDivisionError
              ELSE LET g == GCD(x[2], y[2])
                   IN  Norm(x[1] * (y[2] \div g) + y[1] * (x[2] \div g),
                            x[2] * (y[2] \div g))

FNeg(x) == IF Raised(x) THEN ZeroDivisionError ELSE <<-x[1], x[2]>>

FSub(x, y) == FAdd(x, FNeg(y))

\* x * y, cancelling across the factors first
FMul(x, y) == IF Raised(x) \/ Raised(y) THEN ZeroDivisionError
              ELSE LET g1 == GCD(Abs(x[1]), y[2])
                       g2 == GCD(Abs(y[1]), x[2])
                   IN  Norm((x[1] \div g1) * (y[1] \div g2),
                            (x[2] \div g2) * (y[2] \div g1))

\* Python float division raises ZeroDivisionError on a zero divisor
FDiv(x, y) == IF Raised(x) \/ Raised(y) \/ y[1] = 0 THEN ZeroDivisionError
              ELSE FMul(x, Norm(y[2], y[1]))

\* sign of a/b - c/d (b, d > 0), by integer parts and then the reciprocals of the
\* fractional parts, so that no product is formed
RECURSIVE CmpFrac(_, _, _, _)
CmpFrac(a, b, c, d) ==
    LET q1 == a \div b
        q2 == c \div d
        r1 == a % b
        r2 == c % d
    IN  IF q1 # q2 THEN (IF q1 < q2 THEN -1 ELSE 1)
        ELSE IF r1 = 0 /\ r2 = 0 THEN 0
        ELSE IF r1 = 0 THEN -1
        ELSE IF r2 = 0 THEN 1
        ELSE CmpFrac(d, r2, b, r1)

FLt(x, y) == CmpFrac(x[1], x[2], y[1], y[2]) < 0
FLeq(x, y) == CmpFrac(x[1], x[2], y[1], y[2]) <= 0
FGeq(x, y) == FLeq(y, x)
FGt(x, y) == FLt(y, x)

FMax(x, y) == IF FLt(x, y) THEN y ELSE x
FMin(x, y) == IF FLt(y, x) THEN y ELSE x

Zero == <<0, 1>>
One == <<1, 1>>

---------------------------------------------------------------------------
(* BayesianKnowledgeTracing *)

\* __init__ defaults
DefaultBKT == [p_learn |-> <<3, 10>>, p_guess |-> <<1, 4>>, p_slip |-> <<1, 10>>,
               initial_mastery |-> <<1, 2>>]

\* __init__ stores its arguments unchecked
BKTInit(p_learn, p_guess, p_slip, initial_mastery) ==
    [p_learn |-> p_learn, p_guess |-> p_guess, p_slip |-> p_slip,
     initial_mastery |-> initial_mastery]

\* _update_correct without its zero-denominator guard
_update_correct_unguarded(self, prior) ==
    LET numerator == FMul(prior, FSub(One, self.p_slip))
        denominator == FAdd(numerator, FMul(FSub(One, prior), self.p_guess))
    IN  FDiv(numerator, denominator)

_update_correct(self, prior) ==
    LET numerator == FMul(prior, FSub(One, self.p_slip))
        denominator == FAdd(numerator, FMul(FSub(One, prior), self.p_guess))
    IN  IF denominator = Zero THEN prior
        ELSE FDiv(numerator, denominator)

\* _update_incorrect weighing the unmastered case by p_guess instead of 1 - p_guess
_update_incorrect_guess(self, prior) ==
    LET numerator == FMul(prior, self.p_slip)
        denominator == FAdd(numerator, FMul(FSub(One, prior), self.p_guess))
    IN  IF denominator = Zero THEN prior
        ELSE FDiv(numerator, denominator)

_update_incorrect(self, prior) ==
    LET numerator == FMul(prior, self.p_slip)
        denominator == FAdd(numerator, FMul(FSub(One, prior), FSub(One, self.p_guess)))
    IN  IF denominator = Zero THEN prior
        ELSE FDiv(numerator, denominator)

\* max(0.0, min(1.0, updated_mastery))
Clamp01(x) == IF Raised(x) THEN ZeroDivisionError ELSE FMax(Zero, FMin(One, x))

\* update with the branch on observation_correct inverted
update_inverted(self, prior, observation_correct) ==
    LET posterior == IF ~observation_correct THEN _update_correct(self, prior)
                     ELSE _update_incorrect(self, prior)
        updated_mastery == FAdd(posterior, FMul(FSub(One, posterior), self.p_learn))
    IN  Clamp01(updated_mastery)

update(self, prior, observation_correct) ==
    LET posterior == IF observation_correct THEN _update_correct(self, prior)
                     ELSE _update_incorrect(self, prior)
        updated_mastery == FAdd(posterior, FMul(FSub(One, posterior), self.p_learn))
    IN  Clamp01(updated_mastery)

\* bulk_update accumulating (+=) each update instead of assigning it
RECURSIVE bulk_update_accumulate(_, _, _)
bulk_update_accumulate(self, current_mastery, observations) ==
    IF observations = <<>> THEN current_mastery
    ELSE bulk_update_accumulate(self,
             FAdd(current_mastery, update(self, current_mastery, Head(observations))),
             Tail(observations))

\* bulk_update iterating the observations last to first
RECURSIVE bulk_update_reversed(_, _, _)
bulk_update_reversed(self, current_mastery, observations) ==
    IF observations = <<>> THEN current_mastery
    ELSE bulk_update_reversed(self,
             update(self, current_mastery, observations[Len(observations)]),
             SubSeq(observations, 1, Len(observations) - 1))

RECURSIVE bulk_update(_, _, _)
bulk_update(self, current_mastery, observations) ==
    IF observations = <<>> THEN current_mastery
    ELSE bulk_update(self, update(self, current_mastery, Head(observations)),
                     Tail(observations))

\* get_confidence with the 10-observation branch taken from 3 observations on
get_confidence_early_high(self, m, num_observations) ==
    IF num_observations < 3 THEN "low"
    ELSE IF FLt(m, <<1, 5>>) \/ FGt(m, <<4, 5>>) THEN "high"
    ELSE "medium"

get_confidence(self, m, num_observations) ==
    IF num_observations < 3 THEN "low"
    ELSE IF num_observations < 10
         THEN (IF FLt(m, <<3, 10>>) \/ FGt(m, <<7, 10>>) THEN "medium" ELSE "low")
         ELSE (IF FLt(m, <<1, 5>>) \/ FGt(m, <<4, 5>>) THEN "high" ELSE "medium")

---------------------------------------------------------------------------
(* DiagnosticEngine: tier classification *)

\* TierLevel (student_model/schemas.py)
TIER_1 == "Tier 1"
TIER_2 == "Tier 2"
TIER_3 == "Tier 3"

\* the first classification site with > 0.75 in place of >= 0.75
TierOfEstimate_strict(current_mastery) ==
    IF FGt(current_mastery, <<3, 4>>) THEN TIER_1
    ELSE IF FGeq(current_mastery, <<9, 20>>) THEN TIER_2
    ELSE TIER_3

\* _estimate_student_mastery: "Determine tier based on mastery thresholds"
TierOfEstimate(current_mastery) ==
    IF FGeq(current_mastery, <<3, 4>>) THEN TIER_1
    ELSE IF FGeq(current_mastery, <<9, 20>>) THEN TIER_2
    ELSE TIER_3

\* update_mastery_from_assessment: "Determine new tier"
TierOfUpdate(updated_mastery) ==
    IF FGeq(updated_mastery, <<3, 4>>) THEN TIER_1
    ELSE IF FGeq(updated_mastery, <<9, 20>>) THEN TIER_2
    ELSE TIER_3

\* round(x, 4): the nearest multiple of 1/10000, ties to the even one.  The number of
\* ten-thousandths is found by bisection, comparing the fractional part with midpoints.
RECURSIVE RoundUnits(_, _, _)
RoundUnits(frac, lo, hi) ==
    \* the result lies in lo..hi
    IF lo = hi THEN lo
    ELSE LET mid == (lo + hi) \div 2
             c == CmpFrac(frac[1], frac[2], 2 * mid + 1, 20000)
         IN  IF c < 0 THEN RoundUnits(frac, lo, mid)
             ELSE IF c > 0 THEN RoundUnits(frac, mid + 1, hi)
             ELSE IF mid % 2 = 0 THEN mid ELSE mid + 1

Round4(x) ==
    IF Raised(x) THEN ZeroDivisionError
    ELSE LET q == x[1] \div x[2]
             frac == <<x[1] % x[2], x[2]>>
         IN  Norm(q * 10000 + RoundUnits(frac, 0, 10000), 10000)

---------------------------------------------------------------------------
(* Inputs *)

\* parameter values: the extremes, the defaults and a midpoint
ParamValues == {<<0, 1>>, <<1, 4>>, <<1, 2>>, <<1, 1>>}

PriorValues == {<<0, 1>>, <<1, 4>>, <<1, 2>>, <<3, 4>>, <<1, 1>>}

LastOf(seq) == seq[Len(seq)]

\* mastery values on and next to every threshold of the classifications
ThresholdValues ==
    {<<0, 1>>, <<1, 10>>, <<1999, 10000>>, <<1, 5>>, <<2001, 10000>>,
     <<2999, 10000>>, <<3, 10>>, <<3001, 10000>>, <<4499, 10000>>, <<9, 20>>,
     <<1, 2>>, <<6999, 10000>>, <<7, 10>>, <<7001, 10000>>, <<7499, 10000>>,
     <<3, 4>>, <<7999, 10000>>, <<4, 5>>, <<8001, 10000>>, <<1, 1>>}

RECURSIVE SeqsUpTo(_)
SeqsUpTo(n) == IF n = 0 THEN {<<>>}
               ELSE LET S == SeqsUpTo(n - 1)
                    IN  S \cup {Append(s, b) : s \in {t \in S : Len(t) = n - 1}, b \in BOOLEAN}

---------------------------------------------------------------------------
(* The estimator driven by a caller *)

IdleHarness ==
    /\ prior_mastery = Zero
    /\ mastery = Zero
    /\ history = <<>>
    /\ arg_prior = Zero
    /\ last_call = "idle"

IdleStore ==
    /\ mastery_data = <<>>
    /\ calls = 0
    /\ folded = <<>>
    /\ assessed_only = <<>>
    /\ last_estimate = <<>>

IdleRace ==
    /\ caller = <<>>
    /\ race_prior = Zero

IdleClassify == cls = <<>>

IdleFeedback ==
    /\ predictions = <<>>
    /\ report = <<>>
    /\ fb = <<>>

IdleWorkflow ==
    /\ pipeline = <<>>
    /\ graph = <<>>
    /\ grading = <<>>
    /\ tier_assignments = <<>>

InitBKT ==
    /\ IdleStore /\ IdleRace /\ IdleClassify /\ IdleFeedback /\ IdleWorkflow
    /\ \/ \E l \in ParamValues, g \in ParamValues, s \in ParamValues :
             bkt = BKTInit(l, g, s, <<1, 2>>)
       \/ bkt = DefaultBKT
    /\ prior_mastery \in PriorValues
    /\ mastery = prior_mastery
    /\ history = <<>>
    /\ arg_prior = prior_mastery
    /\ last_call = "init"

CallUpdate(obs) ==
    /\ Len(history) < MaxObs
    /\ mastery' = update(bkt, mastery, obs)
    /\ history' = Append(history, obs)
    /\ arg_prior' = mastery
    /\ last_call' = "update"
    /\ UNCHANGED <<bkt, prior_mastery, storeVars, raceVars, cls, feedbackVars, workflowVars>>

CallBulkUpdate(observations) ==
    /\ Len(history) + Len(observations) <= MaxObs
    /\ mastery' = bulk_update(bkt, mastery, observations)
    /\ history' = history \o observations
    /\ arg_prior' = mastery
    /\ last_call' = "bulk_update"
    /\ UNCHANGED <<bkt, prior_mastery, storeVars, raceVars, cls, feedbackVars, workflowVars>>

NextBKT ==
    \/ \E obs \in BOOLEAN : CallUpdate(obs)
    \/ \E observations \in SeqsUpTo(MaxObs) : CallBulkUpdate(observations)

SpecBKT == InitBKT /\ [][NextBKT]_vars

---------------------------------------------------------------------------
(* Properties of the estimator, stated for SpecBKT *)

InUnit(x) == ~Raised(x) /\ FLeq(Zero, x) /\ FLeq(x, One)

\* C1: for a prior and parameters in [0,1], every value update and bulk_update
\* return lies in [0,1], whatever the observations.
C1_Bounded ==
    /\ InUnit(mastery)
    /\ \A obs \in BOOLEAN : InUnit(update(bkt, mastery, obs))

C1_Witness ==
    /\ last_call = "bulk_update"
    /\ Len(history) >= 2
    /\ FLt(Zero, mastery) /\ FLt(mastery, One)

\* the posterior as the claim writes it (denominator non-zero)
ClaimDenominator(self, prior, correct) ==
    IF correct
    THEN FAdd(FMul(prior, FSub(One, self.p_slip)), FMul(FSub(One, prior), self.p_guess))
    ELSE FAdd(FMul(prior, self.p_slip), FMul(FSub(One, prior), FSub(One, self.p_guess)))

ClaimPosterior(self, prior, correct) ==
    IF correct
    THEN FDiv(FMul(prior, FSub(One, self.p_slip)), ClaimDenominator(self, prior, TRUE))
    ELSE FDiv(FMul(prior, self.p_slip), ClaimDenominator(self, prior, FALSE))

ClaimLearn(self, posterior) ==
    LET u == FAdd(posterior, FMul(FSub(One, posterior), self.p_learn))
    IN  IF FLt(u, Zero) THEN Zero ELSE IF FLt(One, u) THEN One ELSE u

Within(x, y, eps) == FLeq(FSub(x, y), eps) /\ FLeq(FSub(y, x), eps)

\* C2: update(prior, correct) = clamp01(posterior + (1 - posterior) * p_learn) with the
\* Bayesian posterior of the observation; with the default parameters update(0.5, True)
\* is 0.848 and update(0.5, False) is 0.382, each within 0.001.
C2_UpdateFormula ==
    /\ (last_call = "update" /\ ClaimDenominator(bkt, arg_prior, LastOf(history)) # Zero)
          => mastery = ClaimLearn(bkt, ClaimPosterior(bkt, arg_prior, LastOf(history)))
    /\ (last_call = "update" /\ bkt = DefaultBKT /\ arg_prior = <<1, 2>>)
          => IF LastOf(history) THEN Within(mastery, <<848, 1000>>, <<1, 1000>>)
             ELSE Within(mastery, <<382, 1000>>, <<1, 1000>>)

C2_Witness ==
    /\ last_call = "update" /\ bkt = DefaultBKT /\ arg_prior = <<1, 2>>
    /\ history = <<FALSE>>
    /\ mastery = <<13, 34>>

\* C3: when the posterior's denominator is zero the posterior is the prior unchanged
\* (so the result is the learning step applied to the prior), and no call raises.
C3_ZeroDenominator ==
    /\ ~Raised(mastery)
    /\ (last_call = "update" /\ ClaimDenominator(bkt, arg_prior, LastOf(history)) = Zero)
          => /\ mastery = ClaimLearn(bkt, arg_prior)
             /\ LastOf(history) => _update_correct(bkt, arg_prior) = arg_prior
             /\ ~LastOf(history) => _update_incorrect(bkt, arg_prior) = arg_prior

C3_Witness ==
    /\ last_call = "update"
    /\ LastOf(history)
    /\ ClaimDenominator(bkt, arg_prior, TRUE) = Zero
    /\ mastery = ClaimLearn(bkt, arg_prior)

\* the left fold of update, written from the last observation backwards
RECURSIVE LeftFold(_, _, _)
LeftFold(self, p, obs) ==
    IF obs = <<>> THEN p
    ELSE update(self, LeftFold(self, p, SubSeq(obs, 1, Len(obs) - 1)), obs[Len(obs)])

\* C4: bulk_update is the left fold of update in the given order:
\* bulk_update(p, <<>>) = p and bulk_update(p, a \o b) = bulk_update(bulk_update(p, a), b).
C4_LeftFold ==
    /\ bulk_update(bkt, prior_mastery, <<>>) = prior_mastery
    /\ mastery = bulk_update(bkt, prior_mastery, history)
    /\ mastery = LeftFold(bkt, prior_mastery, history)
    /\ \A k \in 0..Len(history) :
          bulk_update(bkt, bulk_update(bkt, prior_mastery, SubSeq(history, 1, k)),
                      SubSeq(history, k + 1, Len(history))) = mastery

\* a bulk_update call over a mixed sequence whose result depends on the order
C4_Witness ==
    /\ last_call = "bulk_update"
    /\ history = <<TRUE, FALSE>>
    /\ arg_prior = prior_mastery
    /\ mastery # bulk_update(bkt, prior_mastery, <<FALSE, TRUE>>)

\* C5 as stated: for any parameters in [0,1], appending one correct observation never
\* lowers the result of bulk_update.
C5_Original ==
    (history # <<>> /\ LastOf(history))
        => FGeq(mastery, bulk_update(bkt, prior_mastery, SubSeq(history, 1, Len(history) - 1)))

\* C5 amended: for parameters with p_guess + p_slip <= 1, appending one correct
\* observation never lowers the result of bulk_update.
C5_Monotonic ==
    (history # <<>> /\ LastOf(history) /\ FLeq(FAdd(bkt.p_guess, bkt.p_slip), One))
        => FGeq(mastery, bulk_update(bkt, prior_mastery, SubSeq(history, 1, Len(history) - 1)))

C5_Witness ==
    /\ Len(history) >= 2 /\ LastOf(history)
    /\ FLeq(FAdd(bkt.p_guess, bkt.p_slip), One)
    /\ FGt(mastery, bulk_update(bkt, prior_mastery, SubSeq(history, 1, Len(history) - 1)))

---------------------------------------------------------------------------
(* StudentModelInterface: the mastery_data table *)

Students == {"s1", "s2"}
Concepts == {"c1"}
Pairs == Students \X Concepts

\* MasteryModel with a p_learn column default other than the estimator's
MasteryModel_other_p_learn(student_id, concept_id, mastery_probability, num_observations) ==
    [student_id |-> student_id, concept_id |-> concept_id,
     mastery_probability |-> mastery_probability,
     p_learn |-> <<1, 10>>, p_guess |-> <<1, 4>>, p_slip |-> <<1, 10>>,
     num_observations |-> num_observations]

\* MasteryModel column defaults (database.py): p_learn, p_guess, p_slip
MasteryModel(student_id, concept_id, mastery_probability, num_observations) ==
    [student_id |-> student_id, concept_id |-> concept_id,
     mastery_probability |-> mastery_probability,
     p_learn |-> <<3, 10>>, p_guess |-> <<1, 4>>, p_slip |-> <<1, 10>>,
     num_observations |-> num_observations]

\* indices of the rows of a (student, concept) pair, in mastery_id order
RowsOf(table, student_id, concept_id) ==
    {i \in DOMAIN table : table[i].student_id = student_id /\ table[i].concept_id = concept_id}

Min(S) == CHOOSE i \in S : \A j \in S : i <= j

\* query(MasteryModel).first() without the filter on student_id and concept_id
QueryFirst_unfiltered(table, student_id, concept_id) ==
    IF DOMAIN table = {} THEN 0 ELSE Min(DOMAIN table)

\* query(MasteryModel).filter(...).first(): index of the row found, 0 for None
QueryFirst(table, student_id, concept_id) ==
    IF RowsOf(table, student_id, concept_id) = {} THEN 0
    ELSE Min(RowsOf(table, student_id, concept_id))

\* retrieve_concept_mastery(student_id, [concept_id]): the rows found, in mastery_id order
RECURSIVE SetToSeq(_, _)
SetToSeq(table, S) ==
    IF S = {} THEN <<>> ELSE <<table[Min(S)]>> \o SetToSeq(table, S \ {Min(S)})

\* retrieve_concept_mastery without its filter on the (student, concept) pair
retrieve_concept_mastery_unfiltered(table, student_id, concept_id) ==
    SetToSeq(table, DOMAIN table)

retrieve_concept_mastery(table, student_id, concept_id) ==
    SetToSeq(table, RowsOf(table, student_id, concept_id))

\* the commit of update_mastery_estimate: row is what its query found, num_obs_read the
\* num_observations it loaded from that row
CommitMastery(table, row, num_obs_read, student_id, concept_id, new_mastery) ==
    IF row # 0
    THEN [table EXCEPT ![row].mastery_probability = new_mastery,
                       ![row].num_observations = num_obs_read + 1]
    ELSE Append(table, MasteryModel(student_id, concept_id, new_mastery, 1))

\* update_mastery_estimate run without interruption: the table after it.  The
\* ConceptMastery it returns is built after the commit and is not used by Engine 5.
update_mastery_estimate(table, student_id, concept_id, new_mastery) ==
    LET row == QueryFirst(table, student_id, concept_id)
    IN  CommitMastery(table, row, IF row # 0 THEN table[row].num_observations ELSE 0,
                      student_id, concept_id, new_mastery)

\* ConceptMasteryCreate.mastery_probability without its ge=0.0 bound
ConceptMasteryCreateValid_no_ge(mastery_probability) ==
    FLeq(mastery_probability, One)

\* ConceptMasteryCreate: mastery_probability = Field(..., ge=0.0, le=1.0)
ConceptMasteryCreateValid(mastery_probability) ==
    FGeq(mastery_probability, Zero) /\ FLeq(mastery_probability, One)

\* values a caller may try to put into a ConceptMasteryCreate
CreateValues == {<<-1, 4>>, <<1, 4>>, <<1, 1>>, <<5, 4>>}

\* values passed to update_mastery_estimate directly
DirectValues == {<<0, 1>>, <<1, 2>>, <<1, 1>>}

NoEstimate == <<>>

InitStore ==
    /\ bkt = DefaultBKT
    /\ IdleHarness /\ IdleRace /\ IdleClassify /\ IdleFeedback /\ IdleWorkflow
    /\ mastery_data = <<>>
    /\ calls = 0
    /\ folded = [pr \in Pairs |-> 0]
    /\ assessed_only = [pr \in Pairs |-> TRUE]
    /\ last_estimate = NoEstimate

\* DiagnosticEngine._estimate_student_mastery
EstimateStudentMastery(student_id, concept_id) ==
    LET mastery_records == retrieve_concept_mastery(mastery_data, student_id, concept_id)
        found == Len(mastery_records) > 0
        current_mastery == IF found THEN mastery_records[1].mastery_probability
                           ELSE bkt.initial_mastery
        p_learn == IF found THEN mastery_records[1].p_learn ELSE bkt.p_learn
        p_guess == IF found THEN mastery_records[1].p_guess ELSE bkt.p_guess
        p_slip == IF found THEN mastery_records[1].p_slip ELSE bkt.p_slip
        num_obs == IF found THEN mastery_records[1].num_observations ELSE 0
    IN  /\ calls < MaxCalls
        /\ calls' = calls + 1
        /\ last_estimate' =
              [method |-> "_estimate_student_mastery",
               student_id |-> student_id, concept_id |-> concept_id,
               mastery_probability |-> Round4(current_mastery),
               p_learn |-> p_learn, p_guess |-> p_guess, p_slip |-> p_slip,
               num_observations |-> num_obs,
               recommended_tier |-> TierOfEstimate(current_mastery),
               confidence |-> get_confidence(bkt, current_mastery, num_obs)]
        /\ UNCHANGED <<bkt, harnessVars, raceVars, cls, feedbackVars, workflowVars, mastery_data, folded, assessed_only>>

\* the StudentMasteryEstimate update_mastery_from_assessment returns
UpdatedEstimate(self, student_id, concept_id, updated_mastery, new_num_obs) ==
    [method |-> "update_mastery_from_assessment",
     student_id |-> student_id, concept_id |-> concept_id,
     mastery_probability |-> Round4(updated_mastery),
     p_learn |-> self.p_learn, p_guess |-> self.p_guess, p_slip |-> self.p_slip,
     num_observations |-> new_num_obs,
     recommended_tier |-> TierOfUpdate(updated_mastery),
     confidence |-> get_confidence(self, updated_mastery, new_num_obs)]

\* DiagnosticEngine.update_mastery_from_assessment, run without interruption
UpdateMasteryFromAssessment(student_id, concept_id, observations) ==
    LET mastery_records == retrieve_concept_mastery(mastery_data, student_id, concept_id)
        found == Len(mastery_records) > 0
        prior == IF found THEN mastery_records[1].mastery_probability
                 ELSE bkt.initial_mastery
        num_obs == IF found THEN mastery_records[1].num_observations ELSE 0
        updated_mastery == bulk_update(bkt, prior, observations)
        new_num_obs == num_obs + Len(observations)
        pr == <<student_id, concept_id>>
    IN  /\ calls < MaxCalls
        /\ folded[pr] + Len(observations) <= MaxObs
        /\ calls' = calls + 1
        /\ mastery_data' = update_mastery_estimate(mastery_data, student_id, concept_id,
                                                   updated_mastery)
        /\ last_estimate' = UpdatedEstimate(bkt, student_id, concept_id, updated_mastery,
                                            new_num_obs)
        /\ folded' = [folded EXCEPT ![pr] = @ + Len(observations)]
        /\ UNCHANGED <<bkt, harnessVars, raceVars, cls, feedbackVars, workflowVars, assessed_only>>

\* StudentModelInterface.update_mastery_estimate called directly, with a new_mastery in
\* the range its docstring gives ("New mastery probability (0-1)")
UpdateMasteryEstimate(student_id, concept_id, new_mastery) ==
    /\ calls < MaxCalls
    /\ calls' = calls + 1
    /\ mastery_data' = update_mastery_estimate(mastery_data, student_id, concept_id,
                                               new_mastery)
    /\ assessed_only' = [assessed_only EXCEPT ![<<student_id, concept_id>>] = FALSE]
    /\ UNCHANGED <<bkt, harnessVars, raceVars, cls, feedbackVars, workflowVars, folded, last_estimate>>

\* building a ConceptMasteryCreate and passing it to create_mastery_estimate; a value
\* pydantic rejects raises ValidationError before the Student Model is reached
CreateMasteryEstimate(student_id, concept_id, mastery_probability) ==
    /\ calls < MaxCalls
    /\ calls' = calls + 1
    /\ IF ConceptMasteryCreateValid(mastery_probability)
       THEN /\ mastery_data' = update_mastery_estimate(mastery_data, student_id,
                                                       concept_id, mastery_probability)
            /\ assessed_only' = [assessed_only EXCEPT ![<<student_id, concept_id>>] = FALSE]
       ELSE UNCHANGED <<mastery_data, assessed_only>>
    /\ UNCHANGED <<bkt, harnessVars, raceVars, cls, feedbackVars, workflowVars, folded, last_estimate>>

NextStore ==
    \E pr \in Pairs :
        \/ EstimateStudentMastery(pr[1], pr[2])
        \/ \E observations \in SeqsUpTo(MaxAssessment) :
              UpdateMasteryFromAssessment(pr[1], pr[2], observations)
        \/ \E v \in DirectValues : UpdateMasteryEstimate(pr[1], pr[2], v)
        \/ \E v \in CreateValues : CreateMasteryEstimate(pr[1], pr[2], v)

SpecStore == InitStore /\ [][NextStore]_vars

---------------------------------------------------------------------------
(* Properties of the store, stated for SpecStore *)

C7_NumObservations ==
    \A i \in DOMAIN mastery_data :
        LET pr == <<mastery_data[i].student_id, mastery_data[i].concept_id>>
        IN  assessed_only[pr] => mastery_data[i].num_observations = folded[pr]

---------------------------------------------------------------------------
(* Two callers of update_mastery_from_assessment racing on one (student, concept) pair. *)
(* Each caller has its own session; its steps are the statements that reach the         *)
(* database: the SELECT of retrieve_concept_mastery, the SELECT of                      *)
(* update_mastery_estimate's query, and the commit.                                     *)

Callers == {"A", "B"}
RaceStudent == "s1"
RaceConcept == "c1"

IdleCaller == [pc |-> "idle", observations |-> <<>>, prior_mastery |-> Zero, num_obs |-> 0,
               updated_mastery |-> Zero, row |-> 0, row_num_obs |-> 0,
               result |-> NoEstimate]

\* the pair has no record yet, or one that create_mastery_estimate wrote
InitRace ==
    /\ bkt = DefaultBKT
    /\ IdleHarness /\ IdleClassify /\ IdleFeedback /\ IdleWorkflow
    /\ calls = 0
    /\ folded = [pr \in Pairs |-> 0]
    /\ assessed_only = [pr \in Pairs |-> TRUE]
    /\ last_estimate = NoEstimate
    /\ \/ mastery_data = <<>> /\ race_prior = bkt.initial_mastery
       \/ \E v \in PriorValues :
             /\ mastery_data = update_mastery_estimate(<<>>, RaceStudent, RaceConcept, v)
             /\ race_prior = v
    /\ caller = [c \in Callers |-> IdleCaller]

RaceFrame == UNCHANGED <<bkt, harnessVars, cls, feedbackVars, workflowVars, race_prior, calls, assessed_only,
                         last_estimate>>

\* the call arrives with its observation list
Begin(c, observations) ==
    /\ caller[c].pc = "idle"
    /\ folded[<<RaceStudent, RaceConcept>>] + Len(observations) <= MaxObs
    /\ folded' = [folded EXCEPT ![<<RaceStudent, RaceConcept>>] = @ + Len(observations)]
    /\ caller' = [caller EXCEPT ![c].pc = "retrieve", ![c].observations = observations]
    /\ UNCHANGED mastery_data
    /\ RaceFrame

\* retrieve_concept_mastery, then bulk_update on the caller's own values
Retrieve(c) ==
    LET mastery_records == retrieve_concept_mastery(mastery_data, RaceStudent, RaceConcept)
        found == Len(mastery_records) > 0
        prior == IF found THEN mastery_records[1].mastery_probability
                 ELSE bkt.initial_mastery
        num_obs == IF found THEN mastery_records[1].num_observations ELSE 0
    IN  /\ caller[c].pc = "retrieve"
        /\ caller' = [caller EXCEPT ![c].pc = "query",
                                    ![c].prior_mastery = prior,
                                    ![c].num_obs = num_obs,
                                    ![c].updated_mastery =
                                        bulk_update(bkt, prior, caller[c].observations)]
        /\ UNCHANGED <<mastery_data, folded>>
        /\ RaceFrame

\* update_mastery_estimate: the query(...).first()
Query(c) ==
    LET row == QueryFirst(mastery_data, RaceStudent, RaceConcept)
    IN  /\ caller[c].pc = "query"
        /\ caller' = [caller EXCEPT ![c].pc = "commit",
                                    ![c].row = row,
                                    ![c].row_num_obs =
                                        IF row # 0 THEN mastery_data[row].num_observations
                                        ELSE 0]
        /\ UNCHANGED <<mastery_data, folded>>
        /\ RaceFrame

\* update_mastery_estimate: the commit, then the estimate the engine returns
Commit(c) ==
    /\ caller[c].pc = "commit"
    /\ mastery_data' = CommitMastery(mastery_data, caller[c].row, caller[c].row_num_obs,
                                     RaceStudent, RaceConcept, caller[c].updated_mastery)
    /\ caller' = [caller EXCEPT ![c].pc = "done",
                                ![c].result =
                                    UpdatedEstimate(bkt, RaceStudent, RaceConcept,
                                        caller[c].updated_mastery,
                                        caller[c].num_obs + Len(caller[c].observations))]
    /\ UNCHANGED folded
    /\ RaceFrame

NextRace ==
    \E c \in Callers :
        \/ \E observations \in SeqsUpTo(MaxAssessment) : Begin(c, observations)
        \/ Retrieve(c)
        \/ Query(c)
        \/ Commit(c)

SpecRace == InitRace /\ [][NextRace]_vars

\* the mastery a reader of the pair gets: that of the first row found
StoredMastery ==
    mastery_data[QueryFirst(mastery_data, RaceStudent, RaceConcept)].mastery_probability

\* C8: two concurrent update_mastery_from_assessment calls on one pair are serializable:
\* once both have returned, the stored mastery_probability is the fold of both
\* observation lists in one of the two serial orders.
C8_Serializable ==
    (\A c \in Callers : caller[c].pc = "done") =>
        \/ StoredMastery = bulk_update(bkt, bulk_update(bkt, race_prior, caller["A"].observations),
                                       caller["B"].observations)
        \/ StoredMastery = bulk_update(bkt, bulk_update(bkt, race_prior, caller["B"].observations),
                                       caller["A"].observations)

---------------------------------------------------------------------------
(* The tier and confidence classifications applied to chosen inputs *)

InitClassify ==
    /\ bkt = DefaultBKT
    /\ IdleHarness /\ IdleStore /\ IdleRace /\ IdleFeedback /\ IdleWorkflow
    /\ \E m \in ThresholdValues, n \in 0..MaxNumObs :
          cls = [mastery |-> m, num_observations |-> n,
                 tier_estimate |-> "none", tier_update |-> "none",
                 confidence |-> "none"]

\* lines 490-499 of _estimate_student_mastery on (current_mastery, num_obs)
ClassifyEstimate ==
    /\ cls.tier_estimate = "none"
    /\ cls' = [cls EXCEPT !.tier_estimate = TierOfEstimate(cls.mastery),
                          !.confidence = get_confidence(bkt, cls.mastery, cls.num_observations)]
    /\ UNCHANGED <<bkt, harnessVars, storeVars, raceVars, feedbackVars, workflowVars>>

\* lines 558-566 of update_mastery_from_assessment on (updated_mastery, new_num_obs)
ClassifyUpdate ==
    /\ cls.tier_update = "none"
    /\ cls' = [cls EXCEPT !.tier_update = TierOfUpdate(cls.mastery),
                          !.confidence = get_confidence(bkt, cls.mastery, cls.num_observations)]
    /\ UNCHANGED <<bkt, harnessVars, storeVars, raceVars, feedbackVars, workflowVars>>

NextClassify == ClassifyEstimate \/ ClassifyUpdate

SpecClassify == InitClassify /\ [][NextClassify]_vars

---------------------------------------------------------------------------
(* Properties of the classifications, stated for SpecClassify *)

\* the partition as the claim states it
ClaimTier(m) ==
    CASE FGeq(m, <<75, 100>>) -> "Tier 1"
      [] FGeq(m, <<45, 100>>) /\ FLt(m, <<75, 100>>) -> "Tier 2"
      [] FLt(m, <<45, 100>>) -> "Tier 3"

\* C9: both classification sites of Engine 5 give Tier 1 for mastery >= 0.75, Tier 2 for
\* 0.45 <= mastery < 0.75 and Tier 3 for mastery < 0.45 (0.75 -> 1, 0.7499 -> 2,
\* 0.45 -> 2, 0.4499 -> 3), exactly one tier each, and the same tier at both sites.
C9_TierPartition ==
    /\ cls.tier_estimate # "none" => cls.tier_estimate = ClaimTier(cls.mastery)
    /\ cls.tier_update # "none" => cls.tier_update = ClaimTier(cls.mastery)
    /\ (cls.tier_estimate # "none" /\ cls.tier_update # "none")
          => cls.tier_estimate = cls.tier_update
    /\ Cardinality({t \in {"Tier 1", "Tier 2", "Tier 3"} :
                       t = TierOfEstimate(cls.mastery) \/ t = TierOfUpdate(cls.mastery)}) = 1
    /\ (cls.tier_estimate # "none" /\ cls.mastery = <<3, 4>>) => cls.tier_estimate = "Tier 1"
    /\ (cls.tier_estimate # "none" /\ cls.mastery = <<7499, 10000>>) => cls.tier_estimate = "Tier 2"
    /\ (cls.tier_update # "none" /\ cls.mastery = <<9, 20>>) => cls.tier_update = "Tier 2"
    /\ (cls.tier_update # "none" /\ cls.mastery = <<4499, 10000>>) => cls.tier_update = "Tier 3"

C9_Witness ==
    /\ cls.mastery = <<3, 4>>
    /\ cls.tier_estimate = "Tier 1"
    /\ cls.tier_update = "Tier 1"

\* the confidence table as the claim states it
ClaimConfidence(m, n) ==
    IF n < 3 THEN "low"
    ELSE IF n >= 3 /\ n < 10
         THEN (IF FLt(m, <<3, 10>>) \/ FGt(m, <<7, 10>>) THEN "medium" ELSE "low")
         ELSE (IF FLt(m, <<2, 10>>) \/ FGt(m, <<8, 10>>) THEN "high" ELSE "medium")

\* C10: get_confidence is "low" for n < 3; for 3 <= n < 10 "medium" iff mastery < 0.3 or
\* mastery > 0.7, else "low"; for n >= 10 "high" iff mastery < 0.2 or mastery > 0.8, else
\* "medium"; so "high" is never returned when n < 10.
C10_Confidence ==
    cls.confidence # "none" =>
        /\ cls.confidence = ClaimConfidence(cls.mastery, cls.num_observations)
        /\ cls.num_observations < 10 => cls.confidence # "high"

\* an extreme estimate with 9 observations is still only "medium"
C10_Witness ==
    /\ cls.num_observations = 9
    /\ cls.mastery = <<1, 1>>
    /\ cls.confidence = "medium"

---------------------------------------------------------------------------
(* Feedback Loop (engine_6_feedback.py): the accuracy metrics *)

\* a Python None / SQL NULL
None == <<>>

\* dict.get(key, default)
Get(d, key, default) == IF key \in DOMAIN d THEN d[key] ELSE default

\* zip(a, b) stops at the shorter sequence
Zip(a, b) ==
    [i \in 1..(IF Len(a) < Len(b) THEN Len(a) ELSE Len(b)) |-> <<a[i], b[i]>>]

\* sum(seq), added from the left starting at 0
RECURSIVE FSum(_)
FSum(seq) ==
    IF Len(seq) = 0 THEN Zero
    ELSE FAdd(FSum(SubSeq(seq, 1, Len(seq) - 1)), seq[Len(seq)])

FAbs(x) == IF Raised(x) THEN ZeroDivisionError ELSE <<Abs(x[1]), x[2]>>

\* an int where a float is expected
FromInt(n) == <<n, 1>>

\* round(math.sqrt(x), 4) for 0 <= x: the number of ten-thousandths nearest to the root,
\* found by bisection, comparing x with the squares of the midpoints
RECURSIVE SqrtUnits(_, _, _)
SqrtUnits(x, lo, hi) ==
    IF lo = hi THEN lo
    ELSE LET mid == (lo + hi) \div 2
             c == CmpFrac(x[1], x[2], (2 * mid + 1) * (2 * mid + 1), 400000000)
         IN  IF c < 0 THEN SqrtUnits(x, lo, mid)
             ELSE IF c > 0 THEN SqrtUnits(x, mid + 1, hi)
             ELSE IF mid % 2 = 0 THEN mid ELSE mid + 1

RoundSqrt4(x) ==
    IF Raised(x) THEN ZeroDivisionError
    ELSE Norm(SqrtUnits(x, 0, 20000), 10000)

\* round(x, 3): the nearest multiple of 1/1000, ties to the even one
RECURSIVE RoundUnits3(_, _, _)
RoundUnits3(frac, lo, hi) ==
    IF lo = hi THEN lo
    ELSE LET mid == (lo + hi) \div 2
             c == CmpFrac(frac[1], frac[2], 2 * mid + 1, 2000)
         IN  IF c < 0 THEN RoundUnits3(frac, lo, mid)
             ELSE IF c > 0 THEN RoundUnits3(frac, mid + 1, hi)
             ELSE IF mid % 2 = 0 THEN mid ELSE mid + 1

Round3(x) ==
    IF Raised(x) THEN ZeroDivisionError
    ELSE LET q == x[1] \div x[2]
             frac == <<x[1] % x[2], x[2]>>
         IN  Norm(q * 1000 + RoundUnits3(frac, 0, 1000), 1000)

\* FeedbackLoop._calculate_correlation, and the round(correlation, 4) of its caller: the
\* quotient numerator / (sqrt(sp) * sqrt(sa)) is rounded through its square
\* numerator^2 / (sp * sa).
_calculate_correlation(predicted, actual) ==
    IF Len(predicted) < 2 THEN Zero
    ELSE LET n == FromInt(Len(predicted))
             mean_pred == FDiv(FSum(predicted), n)
             mean_actual == FDiv(FSum(actual), n)
             pairs == Zip(predicted, actual)
             numerator == FSum([i \in DOMAIN pairs |->
                                  FMul(FSub(pairs[i][1], mean_pred),
                                       FSub(pairs[i][2], mean_actual))])
             sq_pred == FSum([i \in DOMAIN predicted |->
                                FMul(FSub(predicted[i], mean_pred),
                                     FSub(predicted[i], mean_pred))])
             sq_actual == FSum([i \in DOMAIN actual |->
                                  FMul(FSub(actual[i], mean_actual),
                                       FSub(actual[i], mean_actual))])
         IN  IF sq_pred = Zero \/ sq_actual = Zero THEN Zero
             ELSE LET r2 == FDiv(FMul(numerator, numerator), FMul(sq_pred, sq_actual))
                      magnitude == RoundSqrt4(r2)
                  IN  IF numerator[1] < 0 THEN FNeg(magnitude) ELSE magnitude

\* the AccuracyMetrics returned when there is no outcome (lines 223-235)
ZeroMetrics(total_predictions) ==
    [exception |-> "None",
     total_predictions |-> total_predictions,
     predictions_with_outcomes |-> 0,
     rmse |-> Zero, mae |-> Zero, correlation |-> Zero,
     mean_predicted |-> Zero, mean_actual |-> Zero,
     overestimation_bias |-> Zero, tier_accuracy |-> Zero]

\* what a call that raised hands to its caller
RaisedZeroDivision == [exception |-> "ZeroDivisionError"]

\* lines 237-278 of _calculate_accuracy_metrics: the metrics over the sequences of the dict
ComputedMetrics(accuracy_data) ==
    LET total_predictions == Get(accuracy_data, "total_predictions", 0)
        predictions_with_outcomes == Get(accuracy_data, "predictions_with_outcomes", 0)
        predicted == Get(accuracy_data, "predicted_masteries", <<>>)
        actual == Get(accuracy_data, "actual_masteries", <<>>)
        pairs == Zip(predicted, actual)
        squared_errors == [i \in DOMAIN pairs |->
                             FMul(FSub(pairs[i][1], pairs[i][2]),
                                  FSub(pairs[i][1], pairs[i][2]))]
        absolute_errors == [i \in DOMAIN pairs |-> FAbs(FSub(pairs[i][1], pairs[i][2]))]
        mse == FDiv(FSum(squared_errors), FromInt(Len(squared_errors)))
        mae == FDiv(FSum(absolute_errors), FromInt(Len(absolute_errors)))
        mean_predicted == FDiv(FSum(predicted), FromInt(Len(predicted)))
        mean_actual == FDiv(FSum(actual), FromInt(Len(actual)))
        overestimation_bias == FSub(mean_predicted, mean_actual)
        predicted_tiers == Get(accuracy_data, "predicted_tiers", <<>>)
        actual_tiers == Get(accuracy_data, "actual_tiers", <<>>)
        tiers == Zip(predicted_tiers, actual_tiers)
        correct_tiers == Cardinality({i \in DOMAIN tiers : tiers[i][1] = tiers[i][2]})
        tier_accuracy == IF Len(predicted_tiers) > 0 /\ Len(actual_tiers) > 0
                         THEN FDiv(FromInt(correct_tiers), FromInt(Len(predicted_tiers)))
                         ELSE Zero
    IN  IF Raised(mse) \/ Raised(mae) \/ Raised(mean_predicted) \/ Raised(mean_actual)
        THEN RaisedZeroDivision
        ELSE [exception |-> "None",
              total_predictions |-> total_predictions,
              predictions_with_outcomes |-> predictions_with_outcomes,
              rmse |-> RoundSqrt4(mse),
              mae |-> Round4(mae),
              correlation |-> _calculate_correlation(predicted, actual),
              mean_predicted |-> Round4(mean_predicted),
              mean_actual |-> Round4(mean_actual),
              overestimation_bias |-> Round4(overestimation_bias),
              tier_accuracy |-> Round4(tier_accuracy)]

\* _calculate_accuracy_metrics without its early return for predictions_with_outcomes == 0
_calculate_accuracy_metrics_no_early_return(accuracy_data) ==
    ComputedMetrics(accuracy_data)

\* FeedbackLoop._calculate_accuracy_metrics
_calculate_accuracy_metrics(accuracy_data) ==
    IF Get(accuracy_data, "predictions_with_outcomes", 0) = 0
    THEN ZeroMetrics(Get(accuracy_data, "total_predictions", 0))
    ELSE ComputedMetrics(accuracy_data)

---------------------------------------------------------------------------
(* Feedback Loop: recommendations and quality *)

\* ParameterUpdate (the reason text is left out)
ParameterUpdate(parameter_name, current_value, recommended_value) ==
    [parameter_name |-> parameter_name,
     current_value |-> current_value,
     recommended_value |-> recommended_value]

\* "Current default BKT parameters (from Engine 5)" inside _recommend_parameter_updates
current_p_learn == <<3, 10>>
current_p_guess == <<1, 4>>
current_p_slip == <<1, 10>>

\* _recommend_parameter_updates with the fallback rule not looking at the earlier rules
_recommend_parameter_updates_fallback_always(metrics) ==
    LET updates1 == IF FGt(metrics.overestimation_bias, <<1, 10>>)
                    THEN <<ParameterUpdate("p_guess", current_p_guess, <<1, 5>>)>>
                    ELSE <<>>
        updates2 == IF FLt(metrics.overestimation_bias, <<-1, 10>>)
                    THEN Append(updates1, ParameterUpdate("p_learn", current_p_learn, <<7, 20>>))
                    ELSE updates1
        updates3 == IF FGt(metrics.rmse, <<1, 5>>)
                    THEN Append(updates2, ParameterUpdate("p_slip", current_p_slip, <<13, 100>>))
                    ELSE updates2
    IN  IF FLt(metrics.tier_accuracy, <<3, 5>>)
        THEN Append(updates3, ParameterUpdate("p_guess", current_p_guess, <<1, 5>>))
        ELSE updates3

\* FeedbackLoop._recommend_parameter_updates: updatesK is the list after the K-th rule
_recommend_parameter_updates(metrics) ==
    LET updates1 ==
            IF FGt(metrics.overestimation_bias, <<1, 10>>)
            THEN <<ParameterUpdate("p_guess", current_p_guess,
                       Round3(FMax(<<3, 20>>, FSub(current_p_guess, <<1, 20>>))))>>
            ELSE <<>>
        updates2 ==
            IF FLt(metrics.overestimation_bias, <<-1, 10>>)
            THEN Append(updates1,
                     ParameterUpdate("p_learn", current_p_learn,
                         Round3(FMin(<<2, 5>>, FAdd(current_p_learn, <<1, 20>>)))))
            ELSE updates1
        updates3 ==
            IF FGt(metrics.rmse, <<1, 5>>)
            THEN Append(updates2,
                     ParameterUpdate("p_slip", current_p_slip,
                         Round3(FMin(<<3, 20>>, FAdd(current_p_slip, <<3, 100>>)))))
            ELSE updates2
    IN  IF FLt(metrics.tier_accuracy, <<3, 5>>) /\ Len(updates3) = 0
        THEN Append(updates3, ParameterUpdate("p_guess", current_p_guess, <<1, 5>>))
        ELSE updates3

\* _assess_quality without its minimum number of outcomes
_assess_quality_no_minimum(metrics) ==
    IF FLt(metrics.rmse, <<1, 10>>) /\ FGt(metrics.tier_accuracy, <<4, 5>>)
    THEN "excellent"
    ELSE IF FLt(metrics.rmse, <<3, 20>>) /\ FGt(metrics.tier_accuracy, <<7, 10>>)
    THEN "good"
    ELSE IF FLt(metrics.rmse, <<1, 4>>) /\ FGt(metrics.tier_accuracy, <<11, 20>>)
    THEN "needs_improvement"
    ELSE "poor"

\* FeedbackLoop._assess_quality
_assess_quality(metrics) ==
    IF metrics.predictions_with_outcomes < 10 THEN "insufficient_data"
    ELSE IF FLt(metrics.rmse, <<1, 10>>) /\ FGt(metrics.tier_accuracy, <<4, 5>>)
    THEN "excellent"
    ELSE IF FLt(metrics.rmse, <<3, 20>>) /\ FGt(metrics.tier_accuracy, <<7, 10>>)
    THEN "good"
    ELSE IF FLt(metrics.rmse, <<1, 4>>) /\ FGt(metrics.tier_accuracy, <<11, 20>>)
    THEN "needs_improvement"
    ELSE "poor"

---------------------------------------------------------------------------
(* The Feedback Loop helpers called on their own *)

\* values of the mastery sequences handed to _calculate_accuracy_metrics
SeriesValues == {<<1, 4>>, <<1, 1>>}

RECURSIVE SeriesUpTo(_)
SeriesUpTo(n) ==
    IF n = 0 THEN {<<>>}
    ELSE LET S == SeriesUpTo(n - 1)
         IN  S \cup {Append(s, v) : s \in {t \in S : Len(t) = n - 1}, v \in SeriesValues}

\* tier lists: empty, one element, and lists of different lengths
PredictedTierLists == {<<>>, <<TIER_1>>, <<TIER_1, TIER_2>>}
ActualTierLists == {<<>>, <<TIER_1>>, <<TIER_2, TIER_2>>, <<TIER_1, TIER_2, TIER_3>>}

\* the accuracy_data dict: the counts, and the sequences that are present
AccuracyData(total, with_outcomes, has_masteries, predicted, actual, has_tiers, predicted_tiers, actual_tiers) ==
    LET keys == {"total_predictions", "predictions_with_outcomes"}
                \cup (IF has_masteries THEN {"predicted_masteries", "actual_masteries"}
                      ELSE {})
                \cup (IF has_tiers THEN {"predicted_tiers", "actual_tiers"} ELSE {})
    IN  [k \in keys |->
            CASE k = "total_predictions" -> total
              [] k = "predictions_with_outcomes" -> with_outcomes
              [] k = "predicted_masteries" -> predicted
              [] k = "actual_masteries" -> actual
              [] k = "predicted_tiers" -> predicted_tiers
              [] k = "actual_tiers" -> actual_tiers]

\* AccuracyMetrics values on and next to every threshold of the rules (the metrics are
\* rounded to four decimals)
BiasValues ==
    {<<-1, 2>>, <<-1001, 10000>>, <<-1, 10>>, <<0, 1>>, <<1, 10>>, <<1001, 10000>>, <<1, 2>>}

RmseValues ==
    {<<2, 25>>, <<999, 10000>>, <<1, 10>>, <<1499, 10000>>, <<3, 20>>, <<1, 5>>,
     <<2001, 10000>>, <<2499, 10000>>, <<1, 4>>, <<3, 10>>}

TierAccuracyValues ==
    {<<0, 1>>, <<11, 20>>, <<5501, 10000>>, <<5999, 10000>>, <<3, 5>>, <<7, 10>>,
     <<7001, 10000>>, <<4, 5>>, <<8001, 10000>>, <<17, 20>>, <<1, 1>>}

OutcomeCounts == {0, 9, 10, 50}

AccuracyMetrics(predictions_with_outcomes, rmse, overestimation_bias, tier_accuracy) ==
    [exception |-> "None",
     total_predictions |-> predictions_with_outcomes,
     predictions_with_outcomes |-> predictions_with_outcomes,
     rmse |-> rmse, mae |-> rmse, correlation |-> Zero,
     mean_predicted |-> Zero, mean_actual |-> Zero,
     overestimation_bias |-> overestimation_bias, tier_accuracy |-> tier_accuracy]

NotCalled == [op |-> "none", args |-> <<>>, result |-> <<>>]

InitAnalyzer ==
    /\ bkt = DefaultBKT
    /\ IdleHarness /\ IdleStore /\ IdleRace /\ IdleClassify /\ IdleWorkflow
    /\ predictions = <<>>
    /\ report = <<>>
    /\ fb = NotCalled

AnalyzerFrame == UNCHANGED <<bkt, harnessVars, storeVars, raceVars, cls, predictions, report, workflowVars>>

CallCalculateAccuracyMetrics(accuracy_data) ==
    /\ fb.op = "none"
    /\ fb' = [op |-> "_calculate_accuracy_metrics", args |-> accuracy_data,
              result |-> _calculate_accuracy_metrics(accuracy_data)]
    /\ AnalyzerFrame

CallRecommendParameterUpdates(metrics) ==
    /\ fb.op = "none"
    /\ fb' = [op |-> "_recommend_parameter_updates", args |-> metrics,
              result |-> _recommend_parameter_updates(metrics)]
    /\ AnalyzerFrame

CallAssessQuality(metrics) ==
    /\ fb.op = "none"
    /\ fb' = [op |-> "_assess_quality", args |-> metrics,
              result |-> _assess_quality(metrics)]
    /\ AnalyzerFrame

\* one helper call per run; the guard is taken before the arguments are drawn
NextAnalyzer ==
    /\ fb.op = "none"
    /\ \/ \E n \in 0..MaxSeries, has_masteries \in BOOLEAN, has_tiers \in BOOLEAN :
             \E predicted \in (IF has_masteries THEN SeriesUpTo(MaxSeries) ELSE {<<>>}),
                actual \in (IF has_masteries THEN SeriesUpTo(MaxSeries) ELSE {<<>>}),
                predicted_tiers \in (IF has_tiers THEN PredictedTierLists ELSE {<<>>}),
                actual_tiers \in (IF has_tiers THEN ActualTierLists ELSE {<<>>}) :
                CallCalculateAccuracyMetrics(
                    AccuracyData(n, n, has_masteries, predicted, actual,
                                 has_tiers, predicted_tiers, actual_tiers))
       \/ \E n \in OutcomeCounts, rmse \in RmseValues, bias \in BiasValues,
             tier_accuracy \in TierAccuracyValues :
             CallRecommendParameterUpdates(AccuracyMetrics(n, rmse, bias, tier_accuracy))
       \/ \E n \in OutcomeCounts, rmse \in RmseValues, bias \in BiasValues,
             tier_accuracy \in TierAccuracyValues :
             CallAssessQuality(AccuracyMetrics(n, rmse, bias, tier_accuracy))

SpecAnalyzer == InitAnalyzer /\ [][NextAnalyzer]_vars

---------------------------------------------------------------------------
(* Properties of the Feedback Loop helpers, stated for SpecAnalyzer *)

\* the rule table: which rules fire for the metrics
Rule1Fires(m) == FGt(m.overestimation_bias, <<1, 10>>)
Rule2Fires(m) == FLt(m.overestimation_bias, <<-1, 10>>)
Rule3Fires(m) == FGt(m.rmse, <<1, 5>>)
Rule4Fires(m) ==
    FLt(m.tier_accuracy, <<3, 5>>) /\ ~Rule1Fires(m) /\ ~Rule2Fires(m) /\ ~Rule3Fires(m)

\* the (parameter, recommended value) entries of the rule table, in rule order
ClaimRecommend(m) ==
    (IF Rule1Fires(m) THEN << <<"p_guess", <<1, 5>>>> >> ELSE <<>>)
    \o (IF Rule2Fires(m) THEN << <<"p_learn", <<7, 20>>>> >> ELSE <<>>)
    \o (IF Rule3Fires(m) THEN << <<"p_slip", <<13, 100>>>> >> ELSE <<>>)
    \o (IF Rule4Fires(m) THEN << <<"p_guess", <<1, 5>>>> >> ELSE <<>>)

ClaimQuality(m) ==
    CASE m.predictions_with_outcomes < 10 -> "insufficient_data"
      [] m.predictions_with_outcomes >= 10
         /\ FLt(m.rmse, <<1, 10>>) /\ FGt(m.tier_accuracy, <<4, 5>>) -> "excellent"
      [] m.predictions_with_outcomes >= 10
         /\ ~(FLt(m.rmse, <<1, 10>>) /\ FGt(m.tier_accuracy, <<4, 5>>))
         /\ FLt(m.rmse, <<3, 20>>) /\ FGt(m.tier_accuracy, <<7, 10>>) -> "good"
      [] m.predictions_with_outcomes >= 10
         /\ ~(FLt(m.rmse, <<1, 10>>) /\ FGt(m.tier_accuracy, <<4, 5>>))
         /\ ~(FLt(m.rmse, <<3, 20>>) /\ FGt(m.tier_accuracy, <<7, 10>>))
         /\ FLt(m.rmse, <<1, 4>>) /\ FGt(m.tier_accuracy, <<11, 20>>) -> "needs_improvement"
      [] OTHER -> "poor"

\* C13: _assess_quality is the first-match cascade: fewer than 10 outcomes ->
\* "insufficient_data"; rmse < 0.10 and tier_accuracy > 0.80 -> "excellent"; rmse < 0.15 and
\* tier_accuracy > 0.70 -> "good"; rmse < 0.25 and tier_accuracy > 0.55 ->
\* "needs_improvement"; otherwise "poor".
C13_QualityCascade ==
    fb.op = "_assess_quality" => fb.result = ClaimQuality(fb.args)

\* rmse 0.08, tier_accuracy 0.85 and 50 outcomes are "excellent"
C13_Witness ==
    /\ fb.op = "_assess_quality"
    /\ fb.args.rmse = <<2, 25>>
    /\ fb.args.tier_accuracy = <<17, 20>>
    /\ fb.args.predictions_with_outcomes = 50
    /\ fb.result = "excellent"

\* C14: with zero predictions with outcomes _calculate_accuracy_metrics does not raise and
\* returns rmse = mae = correlation = overestimation_bias = tier_accuracy = 0.0.
C14_ZeroOutcomes ==
    (fb.op = "_calculate_accuracy_metrics"
     /\ Get(fb.args, "predictions_with_outcomes", 0) = 0) =>
        /\ fb.result.exception = "None"
        /\ fb.result.rmse = Zero
        /\ fb.result.mae = Zero
        /\ fb.result.correlation = Zero
        /\ fb.result.overestimation_bias = Zero
        /\ fb.result.tier_accuracy = Zero

\* zero outcomes reported beside sequences that would give non-zero metrics
C14_Witness ==
    /\ fb.op = "_calculate_accuracy_metrics"
    /\ Get(fb.args, "predictions_with_outcomes", 0) = 0
    /\ Get(fb.args, "predicted_masteries", <<>>) = << <<1, 1>>, <<1, 4>> >>
    /\ Get(fb.args, "actual_masteries", <<>>) = << <<1, 4>>, <<1, 4>> >>
    /\ Get(fb.args, "predicted_tiers", <<>>) = <<TIER_1>>
    /\ Get(fb.args, "actual_tiers", <<>>) = <<TIER_1>>
    /\ fb.result = ZeroMetrics(Get(fb.args, "total_predictions", 0))

\* fewer than two points, or no variance in one of the sequences
Degenerate(predicted, actual) ==
    \/ Len(predicted) < 2
    \/ \A i \in DOMAIN predicted : predicted[i] = predicted[1]
    \/ \A i \in DOMAIN actual : actual[i] = actual[1]

\* C15: _calculate_accuracy_metrics never raises, whatever the counts and sequences of the
\* dict (a positive predictions_with_outcomes beside empty or missing sequences, one data
\* point, no variance, tier lists of different lengths), and the correlation is 0.0 with
\* fewer than two points or with no variance.
C15_NeverRaises ==
    fb.op = "_calculate_accuracy_metrics" =>
        /\ fb.result.exception = "None"
        /\ Degenerate(Get(fb.args, "predicted_masteries", <<>>),
                      Get(fb.args, "actual_masteries", <<>>))
              => fb.result.correlation = Zero

---------------------------------------------------------------------------
(* Prediction log (student_model/interface.py) and the Feedback Loop entry points *)

\* PredictionModel row written by log_prediction: the outcome columns are not passed to the
\* constructor and stay NULL, whatever the PredictionLog carries in them
PredictionModel(prediction) ==
    [prediction_id |-> prediction.prediction_id,
     engine_name |-> prediction.engine_name,
     student_id |-> prediction.student_id,
     concept_id |-> prediction.concept_id,
     predicted_mastery |-> prediction.predicted_mastery,
     predicted_tier |-> prediction.predicted_tier,
     predicted_at |-> prediction.predicted_at,
     actual_mastery |-> None,
     actual_score |-> None,
     error |-> None,
     outcome_recorded_at |-> None]

\* query(PredictionModel).filter(prediction_id == ...).first(): index of the row, 0 for None
QueryPrediction(table, prediction_id) ==
    IF \E i \in DOMAIN table : table[i].prediction_id = prediction_id
    THEN CHOOSE i \in DOMAIN table : table[i].prediction_id = prediction_id
    ELSE 0

\* log_prediction: the table after it.  prediction_id is the primary key, so the commit of
\* a second row with a known id fails with IntegrityError and the table keeps its rows.
log_prediction(table, prediction) ==
    IF QueryPrediction(table, prediction.prediction_id) # 0 THEN table
    ELSE Append(table, PredictionModel(prediction))

\* update_prediction_outcome with the error taken as actual - predicted
update_prediction_outcome_reversed(table, prediction_id, actual_mastery, actual_score) ==
    LET row == QueryPrediction(table, prediction_id)
    IN  IF row = 0 THEN table
        ELSE [table EXCEPT ![row].actual_mastery = actual_mastery,
                           ![row].actual_score = actual_score,
                           ![row].error = FSub(actual_mastery, table[row].predicted_mastery),
                           ![row].outcome_recorded_at = 0]

\* update_prediction_outcome: the table after it (outcome_recorded_at = utcnow(), day 0)
update_prediction_outcome(table, prediction_id, actual_mastery, actual_score) ==
    LET row == QueryPrediction(table, prediction_id)
    IN  IF row = 0 THEN table
        ELSE [table EXCEPT ![row].actual_mastery = actual_mastery,
                           ![row].actual_score = actual_score,
                           ![row].error = FSub(table[row].predicted_mastery, actual_mastery),
                           ![row].outcome_recorded_at = 0]

\* the rows get_prediction_accuracy selects: engine_name, predicted_at >= cutoff (times are
\* days relative to utcnow()), actual_mastery IS NOT NULL
SelectedPredictions(table, engine_name, timeframe_days) ==
    SelectSeq(table, LAMBDA p : /\ p.engine_name = engine_name
                                /\ p.predicted_at >= 0 - timeframe_days
                                /\ p.actual_mastery # None)

\* x ** 0.5, kept as the radicand
SquareRoot(x) == [sqrt_of |-> x]

\* StudentModelInterface.get_prediction_accuracy: the dict it returns
get_prediction_accuracy(table, engine_name, timeframe_days) ==
    LET rows == SelectedPredictions(table, engine_name, timeframe_days)
        n == FromInt(Len(rows))
        errors == [i \in DOMAIN rows |-> rows[i].error]
        predicted == [i \in DOMAIN rows |-> rows[i].predicted_mastery]
        actual == [i \in DOMAIN rows |-> rows[i].actual_mastery]
        pred_mean == FDiv(FSum(predicted), n)
        actual_mean == FDiv(FSum(actual), n)
        numerator == FSum([i \in DOMAIN rows |->
                             FMul(FSub(predicted[i], pred_mean),
                                  FSub(actual[i], actual_mean))])
        sq_pred == FSum([i \in DOMAIN rows |->
                           FMul(FSub(predicted[i], pred_mean),
                                FSub(predicted[i], pred_mean))])
        sq_actual == FSum([i \in DOMAIN rows |->
                             FMul(FSub(actual[i], actual_mean),
                                  FSub(actual[i], actual_mean))])
    IN  IF Len(rows) = 0
        THEN [num_predictions |-> 0, rmse |-> None, mae |-> None, correlation |-> None,
              overestimation_bias |-> None]
        ELSE [engine_name |-> engine_name,
              timeframe_days |-> timeframe_days,
              num_predictions |-> Len(rows),
              rmse |-> SquareRoot(FDiv(FSum([i \in DOMAIN errors |->
                                                FMul(errors[i], errors[i])]), n)),
              mae |-> FDiv(FSum([i \in DOMAIN errors |-> FAbs(errors[i])]), n),
              correlation |->
                  IF Len(rows) > 1 /\ sq_pred # Zero /\ sq_actual # Zero
                  THEN [numerator |-> numerator,
                        denominator |-> SquareRoot(FMul(sq_pred, sq_actual))]
                  ELSE Zero,
              overestimation_bias |-> FDiv(FSum(errors), n)]

\* FeedbackLoop.generate_feedback: the FeedbackReport (feedback_id, generated_at and the
\* insight and warning texts are left out)
generate_feedback(table, engine_name, timeframe_days) ==
    LET accuracy_data == get_prediction_accuracy(table, engine_name, timeframe_days)
        metrics == _calculate_accuracy_metrics(accuracy_data)
    IN  [engine_name |-> engine_name,
         timeframe_days |-> timeframe_days,
         accuracy_metrics |-> metrics,
         parameter_updates |-> _recommend_parameter_updates(metrics),
         quality_assessment |-> _assess_quality(metrics)]

\* apply_parameter_updates that writes the recommended values into the estimator
apply_parameter_updates_writes(self, updates, auto_apply) ==
    LET names == {updates[i].parameter_name : i \in DOMAIN updates}
        LastValue(name) ==
            LET S == {i \in DOMAIN updates : updates[i].parameter_name = name}
            IN  updates[CHOOSE i \in S : \A j \in S : j <= i].recommended_value
    IN  [results |-> [name \in names |-> TRUE],
         bkt |-> [f \in DOMAIN self |-> IF f \in names THEN LastValue(f) ELSE self[f]]]

\* FeedbackLoop.apply_parameter_updates: the dict it returns and the estimator after it.
\* With auto_apply the updates are only logged ("In production, this would update global
\* BKT config").
apply_parameter_updates(self, updates, auto_apply) ==
    IF ~auto_apply THEN [results |-> <<>>, bkt |-> self]
    ELSE [results |-> [name \in {updates[i].parameter_name : i \in DOMAIN updates} |-> TRUE],
          bkt |-> self]

---------------------------------------------------------------------------
(* The prediction log and the Feedback Loop driven by callers *)

PredictionIds == {"p1", "p2"}
EngineNames == {"engine_5_diagnostic", "engine_4_adaptive"}

\* predicted_at in days relative to utcnow(): inside and outside a 30-day window
PredictedAtValues == {-40, 0}
TimeframeValues == {30}

\* PredictionLog.predicted_mastery = Field(..., ge=0.0, le=1.0)
PredictedValues == {<<1, 4>>, <<3, 4>>}

\* outcomes the Grader reports
ActualValues == {<<1, 4>>, <<1, 1>>}

\* PredictionLog as a caller builds it; the optional outcome fields may already be set
PredictionLog(prediction_id, engine_name, predicted_mastery, predicted_at, actual_mastery) ==
    [prediction_id |-> prediction_id,
     engine_name |-> engine_name,
     student_id |-> "s1",
     concept_id |-> "c1",
     predicted_mastery |-> predicted_mastery,
     predicted_tier |-> TierOfEstimate(predicted_mastery),
     predicted_at |-> predicted_at,
     actual_mastery |-> actual_mastery,
     actual_score |-> actual_mastery,
     error |-> None]

\* parameter_updates lists handed to apply_parameter_updates
SampleUpdates ==
    {_recommend_parameter_updates(AccuracyMetrics(50, rmse, bias, <<1, 2>>)) :
        rmse \in {<<1, 10>>, <<3, 10>>}, bias \in {<<0, 1>>, <<1, 2>>}}

InitFeedback ==
    /\ bkt = DefaultBKT
    /\ IdleHarness /\ IdleRace /\ IdleClassify /\ IdleWorkflow
    /\ mastery_data = update_mastery_estimate(<<>>, "s1", "c1", <<1, 2>>)
    /\ calls = 0
    /\ folded = <<>>
    /\ assessed_only = <<>>
    /\ last_estimate = <<>>
    /\ predictions = <<>>
    /\ report = [op |-> "none", args |-> <<>>, result |-> None]
    /\ fb = <<>>

FeedbackFrame == UNCHANGED <<harnessVars, raceVars, cls, fb, workflowVars, calls, folded, assessed_only,
                             last_estimate>>

LogPrediction(prediction) ==
    /\ predictions' = log_prediction(predictions, prediction)
    /\ report' = [op |-> "log_prediction",
                  args |-> [prediction_id |-> prediction.prediction_id],
                  result |-> IF QueryPrediction(predictions, prediction.prediction_id) # 0
                             THEN "IntegrityError" ELSE "None"]
    /\ UNCHANGED <<bkt, mastery_data>>
    /\ FeedbackFrame

UpdatePredictionOutcome(prediction_id, actual_mastery, actual_score) ==
    /\ predictions' = update_prediction_outcome(predictions, prediction_id,
                                                actual_mastery, actual_score)
    /\ report' = [op |-> "update_prediction_outcome",
                  args |-> [prediction_id |-> prediction_id,
                            actual_mastery |-> actual_mastery,
                            actual_score |-> actual_score],
                  result |-> "None"]
    /\ UNCHANGED <<bkt, mastery_data>>
    /\ FeedbackFrame

GenerateFeedback(engine_name, timeframe_days) ==
    /\ report' = [op |-> "generate_feedback",
                  args |-> [engine_name |-> engine_name,
                            timeframe_days |-> timeframe_days],
                  result |-> generate_feedback(predictions, engine_name, timeframe_days)]
    /\ UNCHANGED <<bkt, mastery_data, predictions>>
    /\ FeedbackFrame

ApplyParameterUpdates(updates, auto_apply) ==
    LET applied == apply_parameter_updates(bkt, updates, auto_apply)
    IN  /\ bkt' = applied.bkt
        /\ report' = [op |-> "apply_parameter_updates",
                      args |-> [parameter_updates |-> updates, auto_apply |-> auto_apply],
                      result |-> applied.results]
        /\ UNCHANGED <<mastery_data, predictions>>
        /\ FeedbackFrame

NextFeedback ==
    \/ \E id \in PredictionIds, e \in EngineNames, m \in PredictedValues,
          at \in PredictedAtValues, a \in {None, One} :
          LogPrediction(PredictionLog(id, e, m, at, a))
    \/ \E id \in PredictionIds, a \in ActualValues :
          UpdatePredictionOutcome(id, a, a)
    \/ \E e \in EngineNames, t \in TimeframeValues : GenerateFeedback(e, t)
    \/ \E updates \in SampleUpdates, auto_apply \in BOOLEAN :
          ApplyParameterUpdates(updates, auto_apply)

SpecFeedback == InitFeedback /\ [][NextFeedback]_vars

---------------------------------------------------------------------------
(* Properties of the prediction log and the Feedback Loop, stated for SpecFeedback *)

\* the stored records of an engine inside the window whose actual_mastery is populated
RecordsWithOutcome(engine_name, timeframe_days) ==
    {i \in DOMAIN predictions :
        /\ predictions[i].engine_name = engine_name
        /\ predictions[i].predicted_at + timeframe_days >= 0
        /\ predictions[i].actual_mastery # None}

\* mean of predicted_mastery - actual_mastery over a non-empty set of records
RECURSIVE SumOfErrors(_)
SumOfErrors(S) ==
    IF S = {} THEN Zero
    ELSE LET i == CHOOSE j \in S : TRUE
         IN  FAdd(FSub(predictions[i].predicted_mastery, predictions[i].actual_mastery),
                  SumOfErrors(S \ {i}))

\* C11: generate_feedback over a window holding N records with actual_mastery populated
\* reports predictions_with_outcomes = N and metrics computed over those N records (here
\* the bias, the mean of predicted - actual); the all-zero report appears only for N = 0.
C11_ReportsOutcomes ==
    report.op = "generate_feedback" =>
        LET S == RecordsWithOutcome(report.args.engine_name, report.args.timeframe_days)
            N == Cardinality(S)
            m == report.result.accuracy_metrics
        IN  /\ m.exception = "None"
            /\ m.predictions_with_outcomes = N
            /\ N > 0 => m.overestimation_bias = Round4(FDiv(SumOfErrors(S), FromInt(N)))
            /\ m = ZeroMetrics(m.total_predictions) => N = 0

\* C16: a record is created with actual_mastery, actual_score and error null, and once its
\* actual_mastery is populated no later step changes its predicted_mastery,
\* actual_mastery, actual_score or error.
C16_OutcomeOnce ==
    [][/\ \A i \in DOMAIN predictions' \ DOMAIN predictions :
             /\ predictions'[i].actual_mastery = None
             /\ predictions'[i].actual_score = None
             /\ predictions'[i].error = None
       /\ \A i \in DOMAIN predictions :
             predictions[i].actual_mastery # None =>
                 /\ i \in DOMAIN predictions'
                 /\ predictions'[i].predicted_mastery = predictions[i].predicted_mastery
                 /\ predictions'[i].actual_mastery = predictions[i].actual_mastery
                 /\ predictions'[i].actual_score = predictions[i].actual_score
                 /\ predictions'[i].error = predictions[i].error]_vars

\* C17: in every state of the store each record has error = predicted_mastery -
\* actual_mastery when actual_mastery is populated, and error null when it is null.
C17_ErrorField ==
    \A i \in DOMAIN predictions :
        IF predictions[i].actual_mastery = None
        THEN predictions[i].error = None
        ELSE predictions[i].error =
                 FSub(predictions[i].predicted_mastery, predictions[i].actual_mastery)

\* one record overestimated by 0.5 after its outcome arrived, one still without outcome
C17_Witness ==
    /\ Len(predictions) = 2
    /\ predictions[1].predicted_mastery = <<3, 4>>
    /\ predictions[1].actual_mastery = <<1, 4>>
    /\ predictions[1].error = <<1, 2>>
    /\ predictions[2].actual_mastery = None
    /\ predictions[2].error = None
    /\ report.op = "update_prediction_outcome"

\* C18: generate_feedback and apply_parameter_updates with auto_apply = False change no
\* mastery row, no prediction row and none of the estimator's p_learn, p_guess, p_slip,
\* and apply_parameter_updates with auto_apply = False returns an empty dict.
C18_OnlyRecommends ==
    [][(\/ report'.op = "generate_feedback"
        \/ (report'.op = "apply_parameter_updates" /\ ~report'.args.auto_apply)) =>
           /\ mastery_data' = mastery_data
           /\ predictions' = predictions
           /\ bkt'.p_learn = bkt.p_learn
           /\ bkt'.p_guess = bkt.p_guess
           /\ bkt'.p_slip = bkt.p_slip
           /\ report'.op = "apply_parameter_updates" => DOMAIN report'.result = {}]_vars

\* recommendations for two parameters were handed over without auto_apply, with a graded
\* prediction and a mastery row in the store, and the estimator still has its defaults
C18_Witness ==
    /\ report.op = "apply_parameter_updates"
    /\ ~report.args.auto_apply
    /\ Len(report.args.parameter_updates) = 2
    /\ DOMAIN report.result = {}
    /\ bkt = DefaultBKT
    /\ Len(mastery_data) = 1
    /\ \E i \in DOMAIN predictions : predictions[i].actual_mastery # None

---------------------------------------------------------------------------
(* Constructing an estimator *)

\* arguments a caller may pass to BayesianKnowledgeTracing(...)
ConstructorValues == {<<-1, 4>>, <<0, 1>>, <<3, 10>>, <<1, 1>>, <<5, 4>>}

InitConstruct ==
    /\ bkt = DefaultBKT
    /\ IdleHarness /\ IdleStore /\ IdleRace /\ IdleClassify /\ IdleFeedback /\ IdleWorkflow

\* BayesianKnowledgeTracing(p_learn, p_guess, p_slip); the caller then starts from the
\* estimator's initial_mastery
Construct(p_learn, p_guess, p_slip) ==
    /\ last_call = "idle"
    /\ bkt' = BKTInit(p_learn, p_guess, p_slip, <<1, 2>>)
    /\ prior_mastery' = bkt'.initial_mastery
    /\ mastery' = bkt'.initial_mastery
    /\ arg_prior' = bkt'.initial_mastery
    /\ last_call' = "__init__"
    /\ UNCHANGED <<history, storeVars, raceVars, cls, feedbackVars, workflowVars>>

\* the first update with the estimator just constructed
FirstUpdate(obs) ==
    /\ last_call = "__init__"
    /\ mastery' = update(bkt, mastery, obs)
    /\ history' = Append(history, obs)
    /\ arg_prior' = mastery
    /\ last_call' = "update"
    /\ UNCHANGED <<bkt, prior_mastery, storeVars, raceVars, cls, feedbackVars, workflowVars>>

NextConstruct ==
    \/ \E l \in ConstructorValues, g \in ConstructorValues, s \in ConstructorValues :
          Construct(l, g, s)
    \/ \E obs \in BOOLEAN : FirstUpdate(obs)

SpecConstruct == InitConstruct /\ [][NextConstruct]_vars

\* C19: an estimator constructed with p_learn, p_guess or p_slip outside [0,1] is rejected
\* at construction, so no estimator holding an out-of-range parameter is reachable.
C19_ParametersInRange ==
    InUnit(bkt.p_learn) /\ InUnit(bkt.p_guess) /\ InUnit(bkt.p_slip)

---------------------------------------------------------------------------
(* Defaults for a pair without a stored record, stated for SpecStore *)

\* C20: for a pair with no stored record _estimate_student_mastery reports mastery 0.5,
\* p_learn 0.3, p_guess 0.25, p_slip 0.1, num_observations 0, Tier 2 and confidence "low"
\* and writes nothing; update_mastery_from_assessment folds its observations starting
\* from the prior 0.5 and creates the record of the pair.
C20_Defaults ==
    [][\A pr \in Pairs :
          (/\ RowsOf(mastery_data, pr[1], pr[2]) = {}
           /\ last_estimate' # last_estimate
           /\ last_estimate'.student_id = pr[1]
           /\ last_estimate'.concept_id = pr[2]) =>
              /\ last_estimate'.p_learn = <<3, 10>>
              /\ last_estimate'.p_guess = <<1, 4>>
              /\ last_estimate'.p_slip = <<1, 10>>
              /\ IF last_estimate'.method = "_estimate_student_mastery"
                 THEN /\ last_estimate'.mastery_probability = <<1, 2>>
                      /\ last_estimate'.num_observations = 0
                      /\ last_estimate'.recommended_tier = TIER_2
                      /\ last_estimate'.confidence = "low"
                      /\ mastery_data' = mastery_data
                 ELSE \E observations \in SeqsUpTo(MaxAssessment) :
                         LET folded_mastery == LeftFold(DefaultBKT, <<1, 2>>, observations)
                             rows == RowsOf(mastery_data', pr[1], pr[2])
                         IN  /\ last_estimate'.num_observations = Len(observations)
                             /\ last_estimate'.mastery_probability = Round4(folded_mastery)
                             /\ Cardinality(rows) = 1
                             /\ \A i \in rows :
                                   mastery_data'[i].mastery_probability = folded_mastery]_vars

\* the first estimate for s2 was made while only s1 had a record
C20_Witness ==
    /\ last_estimate # NoEstimate
    /\ last_estimate.method = "_estimate_student_mastery"
    /\ last_estimate.student_id = "s2"
    /\ last_estimate.mastery_probability = <<1, 2>>
    /\ RowsOf(mastery_data, "s2", "c1") = {}
    /\ RowsOf(mastery_data, "s1", "c1") # {}

---------------------------------------------------------------------------
(* Two callers of update_mastery_from_assessment working on different pairs. *)
(* The steps are those of the race above; caller A updates (s1, c1) and      *)
(* caller B updates (s2, c1).                                                *)

PairOf(c) == IF c = "A" THEN <<"s1", "c1">> ELSE <<"s2", "c1">>

\* mastery values of the records that exist before the callers run
DisjointPriors == {<<1, 4>>, <<3, 4>>}

\* each pair has no record yet or one that create_mastery_estimate wrote; race_prior keeps
\* the table as it was before either caller ran
InitDisjoint ==
    /\ bkt = DefaultBKT
    /\ IdleHarness /\ IdleClassify /\ IdleFeedback /\ IdleWorkflow
    /\ calls = 0
    /\ folded = [pr \in Pairs |-> 0]
    /\ assessed_only = [pr \in Pairs |-> TRUE]
    /\ last_estimate = NoEstimate
    /\ \E first \in {<<>>} \cup {update_mastery_estimate(<<>>, "s1", "c1", v) : v \in DisjointPriors} :
          \/ mastery_data = first
          \/ \E v \in DisjointPriors :
                mastery_data = update_mastery_estimate(first, "s2", "c1", v)
    /\ race_prior = mastery_data
    /\ caller = [c \in Callers |-> IdleCaller]

DisjointBegin(c, observations) ==
    /\ caller[c].pc = "idle"
    /\ folded[PairOf(c)] + Len(observations) <= MaxObs
    /\ folded' = [folded EXCEPT ![PairOf(c)] = @ + Len(observations)]
    /\ caller' = [caller EXCEPT ![c].pc = "retrieve", ![c].observations = observations]
    /\ UNCHANGED mastery_data
    /\ RaceFrame

\* retrieve_concept_mastery, then bulk_update on the caller's own values
DisjointRetrieve(c) ==
    LET mastery_records == retrieve_concept_mastery(mastery_data, PairOf(c)[1], PairOf(c)[2])
        found == Len(mastery_records) > 0
        prior == IF found THEN mastery_records[1].mastery_probability
                 ELSE bkt.initial_mastery
        num_obs == IF found THEN mastery_records[1].num_observations ELSE 0
    IN  /\ caller[c].pc = "retrieve"
        /\ caller' = [caller EXCEPT ![c].pc = "query",
                                    ![c].prior_mastery = prior,
                                    ![c].num_obs = num_obs,
                                    ![c].updated_mastery =
                                        bulk_update(bkt, prior, caller[c].observations)]
        /\ UNCHANGED <<mastery_data, folded>>
        /\ RaceFrame

\* update_mastery_estimate: the query(...).first()
DisjointQuery(c) ==
    LET row == QueryFirst(mastery_data, PairOf(c)[1], PairOf(c)[2])
    IN  /\ caller[c].pc = "query"
        /\ caller' = [caller EXCEPT ![c].pc = "commit",
                                    ![c].row = row,
                                    ![c].row_num_obs =
                                        IF row # 0 THEN mastery_data[row].num_observations
                                        ELSE 0]
        /\ UNCHANGED <<mastery_data, folded>>
        /\ RaceFrame

\* update_mastery_estimate: the commit, then the estimate the engine returns
DisjointCommit(c) ==
    /\ caller[c].pc = "commit"
    /\ mastery_data' = CommitMastery(mastery_data, caller[c].row, caller[c].row_num_obs,
                                     PairOf(c)[1], PairOf(c)[2], caller[c].updated_mastery)
    /\ caller' = [caller EXCEPT ![c].pc = "done",
                                ![c].result =
                                    UpdatedEstimate(bkt, PairOf(c)[1], PairOf(c)[2],
                                        caller[c].updated_mastery,
                                        caller[c].num_obs + Len(caller[c].observations))]
    /\ UNCHANGED folded
    /\ RaceFrame

NextDisjoint ==
    \E c \in Callers :
        \/ \E observations \in SeqsUpTo(MaxAssessment) : DisjointBegin(c, observations)
        \/ DisjointRetrieve(c)
        \/ DisjointQuery(c)
        \/ DisjointCommit(c)

SpecDisjoint == InitDisjoint /\ [][NextDisjoint]_vars

---------------------------------------------------------------------------
(* Properties of updates on different pairs, stated for SpecDisjoint *)

\* the table after update_mastery_from_assessment ran alone on it
SerialUpdate(table, pr, observations) ==
    LET mastery_records == retrieve_concept_mastery(table, pr[1], pr[2])
        prior == IF Len(mastery_records) > 0 THEN mastery_records[1].mastery_probability
                 ELSE <<1, 2>>
    IN  update_mastery_estimate(table, pr[1], pr[2], LeftFold(DefaultBKT, prior, observations))

\* the rows of a pair, in mastery_id order
MasteryState(table, pr) ==
    [i \in 1..Cardinality(RowsOf(table, pr[1], pr[2])) |->
        table[CHOOSE j \in RowsOf(table, pr[1], pr[2]) :
                 Cardinality({k \in RowsOf(table, pr[1], pr[2]) : k <= j}) = i]]

\* C21: a step of update_mastery_from_assessment for one pair leaves the records of every
\* other pair unchanged, and once the updates of two different pairs have both returned,
\* however their steps were interleaved, every pair's records are those of the serial
\* order A then B and of the serial order B then A.
C21_DistinctPairsCommute ==
    [][/\ \A c \in Callers : \A pr \in Pairs :
             (caller'[c] # caller[c] /\ pr # PairOf(c)) =>
                 MasteryState(mastery_data', pr) = MasteryState(mastery_data, pr)
       /\ (\A c \in Callers : caller'[c].pc = "done") =>
             \E a1 \in {SerialUpdate(race_prior, PairOf("A"), caller'["A"].observations)},
                b1 \in {SerialUpdate(race_prior, PairOf("B"), caller'["B"].observations)} :
                \E ab \in {SerialUpdate(a1, PairOf("B"), caller'["B"].observations)},
                   ba \in {SerialUpdate(b1, PairOf("A"), caller'["A"].observations)} :
                   \A pr \in Pairs :
                      /\ MasteryState(mastery_data', pr) = MasteryState(ab, pr)
                      /\ MasteryState(mastery_data', pr) = MasteryState(ba, pr)]_vars

\* both callers created the record of their pair, each after the other's query, and both
\* folded a non-empty list
C21_Witness ==
    /\ race_prior = <<>>
    /\ \A c \in Callers : caller[c].pc = "done" /\ caller[c].row = 0
                          /\ Len(caller[c].observations) = 2
    /\ Len(mastery_data) = 2
    /\ mastery_data[1].student_id = "s2"
    /\ caller["A"].updated_mastery # caller["B"].updated_mastery

---------------------------------------------------------------------------
(* MasterCreatorPipeline.run: four engine stages inside one try block, then *)
(* the output is built.                                                      *)

\* the stages in the order run() calls them
Stages == <<"engine_1", "engine_5", "engine_2", "engine_3">>

\* the local of run() each stage assigns
OutputField == [engine_1 |-> "lesson", engine_5 |-> "diagnostic",
                engine_2 |-> "worksheets", engine_3 |-> "modified_worksheets"]

\* what a stage can return (an object with its id), and the str(e) of what it can raise
StageResults == {[id |-> "result_a"], [id |-> "result_b"]}
ExceptionMessages == {"API Error", "timeout"}

\* the locals run() initialises before the try block
InitPipeline ==
    /\ bkt = DefaultBKT
    /\ IdleHarness /\ IdleStore /\ IdleRace /\ IdleClassify /\ IdleFeedback
    /\ graph = <<>> /\ grading = <<>> /\ tier_assignments = <<>>
    /\ pipeline = [pc |-> "engine_1",
                   lesson |-> None, diagnostic |-> None,
                   worksheets |-> None, modified_worksheets |-> None,
                   errors |-> <<>>, warnings |-> <<>>, cost_breakdown |-> {},
                   executed |-> <<>>, raised |-> None, output |-> None]

PipelineFrame == UNCHANGED <<bkt, harnessVars, storeVars, raceVars, cls, feedbackVars,
                             graph, grading, tier_assignments>>

\* the except clause: the message is appended to errors, without the stage's output
HandleException_swallowed(errors, message) == errors

HandleException(errors, message) ==
    Append(errors, <<"Pipeline execution error: ", message>>)

\* the position after a stage returned
NextStage(stage) ==
    LET i == CHOOSE k \in 1..Len(Stages) : Stages[k] = stage
    IN  IF i < Len(Stages) THEN Stages[i + 1] ELSE "build"

\* a stage's generate call returns: its local and its cost are assigned
StageReturns(stage, result) ==
    /\ pipeline.pc = stage
    /\ pipeline' = [pipeline EXCEPT ![OutputField[stage]] = result,
                                    !.cost_breakdown = @ \cup {stage},
                                    !.executed = Append(@, stage),
                                    !.pc = NextStage(stage)]
    /\ PipelineFrame

\* a stage's generate call raises: control leaves the try block
StageRaises(stage, message) ==
    /\ pipeline.pc = stage
    /\ pipeline' = [pipeline EXCEPT !.errors = HandleException(@, message),
                                    !.executed = Append(@, stage),
                                    !.raised = [stage |-> stage, message |-> message],
                                    !.pc = "build"]
    /\ PipelineFrame

\* lines 284-289: the status
PipelineStatus(errors, warnings) ==
    IF errors # <<>> THEN "failure"
    ELSE IF warnings # <<>> THEN "partial_failure"
    ELSE "success"

\* lines 273-314: the PipelineOutput run() returns
BuildOutput ==
    /\ pipeline.pc = "build"
    /\ pipeline' = [pipeline EXCEPT
          !.pc = "returned",
          !.output = [status |-> PipelineStatus(pipeline.errors, pipeline.warnings),
                      lesson |-> pipeline.lesson,
                      diagnostic |-> pipeline.diagnostic,
                      worksheets |-> pipeline.worksheets,
                      modified_worksheets |-> pipeline.modified_worksheets,
                      cost_breakdown |-> pipeline.cost_breakdown,
                      errors |-> pipeline.errors,
                      warnings |-> pipeline.warnings]]
    /\ PipelineFrame

NextPipeline ==
    \/ \E i \in 1..Len(Stages) :
          \/ \E result \in StageResults : StageReturns(Stages[i], result)
          \/ \E message \in ExceptionMessages : StageRaises(Stages[i], message)
    \/ BuildOutput

SpecPipeline == InitPipeline /\ [][NextPipeline]_vars

---------------------------------------------------------------------------
(* Properties of run(), stated for SpecPipeline *)

\* the stages before the given one, in order
StagesBefore(n) == SubSeq(Stages, 1, n)

\* C22: the stages run in the order Engine 1, Engine 5, Engine 2, Engine 3; a stage that
\* raises is the last one executed, the outputs of the stages that returned before it are
\* kept and those of the others stay None, its message is the one entry of errors, and
\* run() returns an output whose status is "failure" then; the status is "success"
\* exactly when errors and warnings are both empty.
C22_StagesAndStatus ==
    /\ \E n \in 0..Len(Stages) : pipeline.executed = StagesBefore(n)
    /\ \A i \in 1..Len(Stages) :
          (pipeline[OutputField[Stages[i]]] # None) <=>
             (/\ i <= Len(pipeline.executed)
              /\ ~(pipeline.raised # None /\ pipeline.raised.stage = Stages[i]))
    /\ pipeline.raised # None =>
          /\ pipeline.pc \in {"build", "returned"}
          /\ pipeline.executed[Len(pipeline.executed)] = pipeline.raised.stage
          /\ Len(pipeline.errors) = 1
          /\ pipeline.errors[1][2] = pipeline.raised.message
    /\ pipeline.raised = None => pipeline.errors = <<>>
    /\ pipeline.pc = "build" => (pipeline.raised # None \/ pipeline.executed = Stages)
    /\ pipeline.pc = "returned" =>
          /\ pipeline.output # None
          /\ (pipeline.output.status = "failure") <=> (pipeline.raised # None)
          /\ (pipeline.output.status = "success") <=>
                (pipeline.output.errors = <<>> /\ pipeline.output.warnings = <<>>)
          /\ pipeline.output.errors = pipeline.errors
          /\ \A i \in 1..Len(Stages) :
                pipeline.output[OutputField[Stages[i]]] = pipeline[OutputField[Stages[i]]]

\* Engine 2 raised after Engine 1 and Engine 5 returned, and run() returned a failure
C22_Witness ==
    /\ pipeline.pc = "returned"
    /\ pipeline.raised # None
    /\ pipeline.raised.stage = "engine_2"
    /\ pipeline.executed = <<"engine_1", "engine_5", "engine_2">>
    /\ pipeline.output.status = "failure"
    /\ pipeline.output.lesson = [id |-> "result_a"]
    /\ pipeline.output.diagnostic = [id |-> "result_b"]
    /\ pipeline.output.worksheets = None
    /\ pipeline.output.modified_worksheets = None
    /\ pipeline.output.errors = << <<"Pipeline execution error: ", "API Error">> >>

---------------------------------------------------------------------------
(* AssessmentGrader.grade_submission (grader/constructed_response.py) for one *)
(* submission of student s1                                                   *)

GradedStudent == "s1"
GradedConcepts == {"c1", "c2"}

\* an answered question with the grade it gets: is_correct from the multiple choice
\* grader, score_percentage from the rubric grader
GradedQuestions ==
    {[question_type |-> "multiple_choice", concept_id |-> c, is_correct |-> b] :
        c \in GradedConcepts, b \in BOOLEAN}
    \cup {[question_type |-> "constructed_response", concept_id |-> c, score_percentage |-> p] :
        c \in GradedConcepts, p \in {50, 70}}

RECURSIVE QuestionLists(_)
QuestionLists(n) ==
    IF n = 0 THEN {<<>>}
    ELSE QuestionLists(n - 1)
         \cup {Append(qs, q) : qs \in {l \in QuestionLists(n - 1) : Len(l) = n - 1},
                               q \in GradedQuestions}

\* lines 131-147: the multiple choice questions are graded first, then the constructed
\* responses, each kind in question order
mc_results(questions) ==
    SelectSeq(questions, LAMBDA q : q.question_type = "multiple_choice")

cr_results(questions) ==
    SelectSeq(questions, LAMBDA q : q.question_type = "constructed_response")

\* what _calculate_concept_scores counts as correct
CountsAsCorrect(result) ==
    IF result.question_type = "multiple_choice" THEN result.is_correct
    ELSE result.score_percentage >= 70

\* the keys of concept_scores in insertion order
RECURSIVE ConceptKeys(_)
ConceptKeys(results) ==
    IF results = <<>> THEN <<>>
    ELSE LET before == ConceptKeys(SubSeq(results, 1, Len(results) - 1))
             c == results[Len(results)].concept_id
         IN  IF \E i \in DOMAIN before : before[i] = c THEN before ELSE Append(before, c)

\* _calculate_concept_scores: per concept the numbers of correct and of all results
_calculate_concept_scores(mc, cr) ==
    LET results == mc \o cr
    IN  [c \in {results[i].concept_id : i \in DOMAIN results} |->
            [correct |-> Cardinality({i \in DOMAIN results :
                                         results[i].concept_id = c /\ CountsAsCorrect(results[i])}),
             total |-> Cardinality({i \in DOMAIN results : results[i].concept_id = c})]]

\* lines 354-356: [True] * correct + [False] * (total - correct)
BuildObservations(scores, concept_id) ==
    [i \in 1..scores[concept_id].total |-> i <= scores[concept_id].correct]

\* DiagnosticEngine.update_mastery_from_assessment of a fresh engine: the table after it
update_mastery_from_assessment(self, table, student_id, concept_id, observations) ==
    LET mastery_records == retrieve_concept_mastery(table, student_id, concept_id)
        prior == IF Len(mastery_records) > 0 THEN mastery_records[1].mastery_probability
                 ELSE self.initial_mastery
    IN  update_mastery_estimate(table, student_id, concept_id,
                                bulk_update(self, prior, observations))

\* _update_student_mastery: one update_mastery_from_assessment call per key of concept_scores
RECURSIVE _update_student_mastery(_, _, _)
_update_student_mastery(table, scores, keys) ==
    IF keys = <<>> THEN [table |-> table, calls |-> <<>>]
    ELSE LET before == _update_student_mastery(table, scores,
                                               SubSeq(keys, 1, Len(keys) - 1))
             concept_id == keys[Len(keys)]
             observations == BuildObservations(scores, concept_id)
         IN  [table |-> update_mastery_from_assessment(DefaultBKT, before.table, GradedStudent,
                                                        concept_id, observations),
              calls |-> Append(before.calls, [student_id |-> GradedStudent,
                                              concept_id |-> concept_id,
                                              observations |-> observations])]

\* a submission waits to be graded; Engine 5 may have logged a prediction for the student
InitGrader ==
    /\ bkt = DefaultBKT
    /\ IdleHarness /\ IdleRace /\ IdleClassify
    /\ pipeline = <<>> /\ graph = <<>> /\ tier_assignments = <<>>
    /\ mastery_data = <<>>
    /\ calls = 0
    /\ folded = <<>>
    /\ assessed_only = <<>>
    /\ last_estimate = <<>>
    /\ \/ predictions = <<>>
       \/ predictions = log_prediction(<<>>, PredictionLog("p1", "engine_5_diagnostic",
                                                           <<3, 4>>, 0, None))
    /\ report = <<>>
    /\ fb = <<>>
    /\ \E questions \in QuestionLists(MaxQuestions) :
          grading = [pc |-> "submitted", questions |-> questions, update_mastery |-> FALSE,
                     results |-> <<>>, concept_scores |-> <<>>, calls |-> <<>>]

\* grade_submission, lines 111-191
GradeSubmission(update_mastery) ==
    LET mc == mc_results(grading.questions)
        cr == cr_results(grading.questions)
        concept_scores == _calculate_concept_scores(mc, cr)
        updated == IF update_mastery
                   THEN _update_student_mastery(mastery_data, concept_scores,
                                                ConceptKeys(mc \o cr))
                   ELSE [table |-> mastery_data, calls |-> <<>>]
    IN  /\ grading.pc = "submitted"
        /\ grading' = [grading EXCEPT !.pc = "graded",
                                      !.update_mastery = update_mastery,
                                      !.results = mc \o cr,
                                      !.concept_scores = concept_scores,
                                      !.calls = updated.calls]
        /\ mastery_data' = updated.table
        /\ UNCHANGED <<bkt, harnessVars, raceVars, cls, feedbackVars, calls, folded,
                       assessed_only, last_estimate, pipeline, graph, tier_assignments>>

NextGrader == \E update_mastery \in BOOLEAN : GradeSubmission(update_mastery)

SpecGrader == InitGrader /\ [][NextGrader]_vars

---------------------------------------------------------------------------
(* Properties of the grader, stated for SpecGrader *)

\* the correctness of a concept's results in the order they were graded
GradedOrder(concept_id) ==
    LET own == SelectSeq(grading.results, LAMBDA r : r.concept_id = concept_id)
    IN  [i \in DOMAIN own |-> CountsAsCorrect(own[i])]

\* C23: the observations the grader passes to update_mastery_from_assessment for a concept
\* are the correctness values of that concept's questions in the order they were graded.
C23_ObservationOrder ==
    \A i \in DOMAIN grading.calls :
        grading.calls[i].observations = GradedOrder(grading.calls[i].concept_id)

\* C26: after grade_submission completed with update_mastery=True, every logged Engine 5
\* prediction of the student for a graded concept has its outcome recorded.
C26_OutcomeRecorded ==
    (grading.pc = "graded" /\ grading.update_mastery) =>
        \A i \in DOMAIN predictions :
            (/\ predictions[i].engine_name = "engine_5_diagnostic"
             /\ predictions[i].student_id = GradedStudent
             /\ predictions[i].concept_id \in DOMAIN grading.concept_scores) =>
               /\ predictions[i].actual_mastery # None
               /\ predictions[i].actual_score # None

---------------------------------------------------------------------------
(* StudentModelInterface.get_students_by_tier beside Engine 5's own tier *)

\* tier_thresholds when the caller gives none
DefaultTierThresholds == [tier1_min |-> <<3, 4>>, tier3_max |-> <<9, 20>>]

\* the tier get_students_by_tier puts one student in: lines 650-670
TierOfStudent(table, student_id, concept_id, tier_thresholds) ==
    LET row == QueryFirst(table, student_id, concept_id)
    IN  IF row # 0
        THEN IF FGeq(table[row].mastery_probability, tier_thresholds.tier1_min) THEN TIER_1
             ELSE IF FLeq(table[row].mastery_probability, tier_thresholds.tier3_max) THEN TIER_3
             ELSE TIER_2
        ELSE TIER_2

\* the students of the class in query order, and the dict get_students_by_tier returns
ClassStudents == <<"s1", "s2">>

get_students_by_tier(table, concept_id, tier_thresholds) ==
    [tier \in {TIER_1, TIER_2, TIER_3} |->
        SelectSeq(ClassStudents,
                  LAMBDA s : TierOfStudent(table, s, concept_id, tier_thresholds) = tier)]

\* mastery values stored before the tiers are asked for: the thresholds, values next to
\* them, and values that round(..., 4) moves onto a threshold from below
StoredTierValues ==
    {<<0, 1>>, <<4499, 10000>>, <<11249, 25000>>, <<9, 20>>, <<1, 2>>,
     <<7499, 10000>>, <<18749, 25000>>, <<3, 4>>, <<1, 1>>}

\* each student of the class has no record for the concept or one with a stored value
InitTiers ==
    /\ bkt = DefaultBKT
    /\ IdleHarness /\ IdleRace /\ IdleClassify /\ IdleFeedback
    /\ pipeline = <<>> /\ graph = <<>> /\ grading = <<>>
    /\ tier_assignments = <<>>
    /\ calls = 0
    /\ folded = [pr \in Pairs |-> 0]
    /\ assessed_only = [pr \in Pairs |-> FALSE]
    /\ last_estimate = NoEstimate
    /\ \E first \in {<<>>} \cup {update_mastery_estimate(<<>>, "s1", "c1", v) :
                                   v \in StoredTierValues} :
          \/ mastery_data = first
          \/ \E v \in StoredTierValues :
                mastery_data = update_mastery_estimate(first, "s2", "c1", v)

GetStudentsByTier(concept_id) ==
    /\ calls < MaxCalls
    /\ calls' = calls + 1
    /\ tier_assignments' = get_students_by_tier(mastery_data, concept_id, DefaultTierThresholds)
    /\ UNCHANGED <<bkt, harnessVars, raceVars, cls, feedbackVars, mastery_data, folded,
                   assessed_only, last_estimate, pipeline, graph, grading>>

NextTiers ==
    \/ \E c \in Concepts : GetStudentsByTier(c)
    \/ \E pr \in Pairs : EstimateStudentMastery(pr[1], pr[2])

SpecTiers == InitTiers /\ [][NextTiers]_vars

---------------------------------------------------------------------------
(* Properties of the two tier assignments, stated for SpecTiers *)

\* a student appears in a list of the dict
PlacedIn(student_id, tier) ==
    \E i \in DOMAIN tier_assignments[tier] : tier_assignments[tier][i] = student_id

\* C24: once both have been asked for, get_students_by_tier with the default thresholds
\* lists a student under the tier Engine 5's estimate recommends for that student, whether
\* the student has a stored mastery or none.
C24_SameTier ==
    (tier_assignments # <<>> /\ last_estimate # NoEstimate) =>
        PlacedIn(last_estimate.student_id, last_estimate.recommended_tier)

---------------------------------------------------------------------------
(* The parameters update_mastery_from_assessment works with, stated for SpecDisjoint *)

\* the p_learn, p_guess, p_slip columns of a record, as an estimator's parameters
StoredParameters(record) ==
    [p_learn |-> record.p_learn, p_guess |-> record.p_guess, p_slip |-> record.p_slip,
     initial_mastery |-> <<1, 2>>]

---------------------------------------------------------------------------
(* The number of records of a pair, stated for SpecRace *)

\* C27: in every reachable state of the store, also while update_mastery_estimate calls
\* for a pair without a record interleave, mastery_data holds at most one record per
\* (student_id, concept_id).
C27_AtMostOneRecord ==
    \A pr \in Pairs : Cardinality(RowsOf(mastery_data, pr[1], pr[2])) <= 1

---------------------------------------------------------------------------
(* The LangGraph pipeline (orchestration/langgraph_pipeline.py): the nodes,  *)
(* the routing functions and the edges create_master_creator_graph adds.     *)

\* the nodes whose body is an engine call inside try / except
EngineNodes == {"unit_plan", "lesson_architect", "diagnostic", "worksheet_designer",
                "iep_specialist", "adaptive_plan", "feedback_loop"}

\* state_management.add_error: the message joins state["errors"]
add_error(state, message) == [state EXCEPT !.errors = Append(@, message)]

should_run_unit_plan(state) ==
    IF state.skip_unit_plan THEN "lesson_architect" ELSE "unit_plan"

should_run_adaptive(state) ==
    IF state.skip_adaptive_plan \/ state.errors # <<>> THEN "feedback_check"
    ELSE "adaptive_plan"

should_run_feedback(state) ==
    IF state.skip_feedback_loop \/ state.errors # <<>> THEN "finalize"
    ELSE "feedback_loop"

check_core_pipeline_success(state) ==
    IF state.errors # <<>> THEN "finalize" ELSE "iep_specialist"

\* the path map of the conditional edges after iep_specialist: lines 515-522
AdaptiveEdges == [adaptive_plan |-> "adaptive_plan", feedback_check |-> "feedback_loop"]

\* the node the compiled graph runs after a node returned the given state
Successor(node, state) ==
    CASE node = "unit_plan" -> "lesson_architect"
      [] node = "lesson_architect" -> "diagnostic"
      [] node = "diagnostic" -> "worksheet_designer"
      [] node = "worksheet_designer" -> check_core_pipeline_success(state)
      [] node = "iep_specialist" -> AdaptiveEdges[should_run_adaptive(state)]
      [] node = "adaptive_plan" -> should_run_feedback(state)
      [] node = "feedback_loop" -> "finalize"
      [] node = "finalize" -> "__end__"

\* the state run_sync_pipeline / run_async_pipeline hand to the graph, at its entry point
InitGraph ==
    /\ bkt = DefaultBKT
    /\ IdleHarness /\ IdleStore /\ IdleRace /\ IdleClassify /\ IdleFeedback
    /\ pipeline = <<>> /\ grading = <<>> /\ tier_assignments = <<>>
    /\ \E skip_unit_plan \in BOOLEAN, skip_adaptive_plan \in BOOLEAN,
          skip_feedback_loop \in BOOLEAN :
          LET state == [skip_unit_plan |-> skip_unit_plan,
                        skip_adaptive_plan |-> skip_adaptive_plan,
                        skip_feedback_loop |-> skip_feedback_loop,
                        errors |-> <<>>, current_stage |-> "none",
                        finalized |-> FALSE, success |-> FALSE]
          IN  graph = [state |-> state, node |-> should_run_unit_plan(state),
                       executed |-> <<>>]

GraphFrame == UNCHANGED <<bkt, harnessVars, storeVars, raceVars, cls, feedbackVars,
                          pipeline, grading, tier_assignments>>

\* an engine node: the engine call returns or raises, then the graph follows its edge
RunEngineNode(node, raises) ==
    LET entered == [graph.state EXCEPT !.current_stage = node]
        state == IF raises THEN add_error(entered, node) ELSE entered
    IN  /\ graph.node = node
        /\ graph' = [state |-> state, node |-> Successor(node, state),
                     executed |-> Append(graph.executed, node)]
        /\ GraphFrame

\* finalize_node: finalize_pipeline(state, success=len(state["errors"]) == 0), then the END node
RunFinalize ==
    LET state == [graph.state EXCEPT !.finalized = TRUE,
                                     !.success = (graph.state.errors = <<>>)]
    IN  /\ graph.node = "finalize"
        /\ graph' = [state |-> state, node |-> Successor("finalize", state),
                     executed |-> Append(graph.executed, "finalize")]
        /\ GraphFrame

NextGraph ==
    \/ \E node \in EngineNodes, raises \in BOOLEAN : RunEngineNode(node, raises)
    \/ RunFinalize

SpecGraph == InitGraph /\ [][NextGraph]_vars

---------------------------------------------------------------------------
(* Properties of the graph, stated for SpecGraph *)

\* C28: the feedback_loop node is the next to run only when the feedback loop was requested
\* (skip_feedback_loop false) and no error is recorded; otherwise the run goes to finalize
\* without it, whether or not the adaptive plan node ran.
C28_FeedbackOnlyWhenRequested ==
    graph.node = "feedback_loop" =>
        (~graph.state.skip_feedback_loop /\ graph.state.errors = <<>>)

---------------------------------------------------------------------------
(* Engine 5's estimates and the predictions it logs, for stored masteries on *)
(* and next to the tier thresholds                                           *)

\* the store holds values on and next to the thresholds, as for the tier lists above
InitCarried ==
    /\ bkt = DefaultBKT
    /\ IdleHarness /\ IdleRace /\ IdleClassify /\ IdleWorkflow
    /\ calls = 0
    /\ folded = [pr \in Pairs |-> 0]
    /\ assessed_only = [pr \in Pairs |-> FALSE]
    /\ last_estimate = NoEstimate
    /\ \E first \in {<<>>} \cup {update_mastery_estimate(<<>>, "s1", "c1", v) :
                                   v \in StoredTierValues} :
          \/ mastery_data = first
          \/ \E v \in StoredTierValues :
                mastery_data = update_mastery_estimate(first, "s2", "c1", v)
    /\ predictions = <<>>
    /\ report = <<>>
    /\ fb = <<>>

\* _log_predictions for one estimate: the PredictionLog it builds is logged
LogEstimate(diagnostic_id) ==
    /\ last_estimate # NoEstimate
    /\ last_estimate.method = "_estimate_student_mastery"
    /\ predictions' =
          log_prediction(predictions,
              [prediction_id |-> <<diagnostic_id, last_estimate.student_id,
                                   last_estimate.concept_id>>,
               engine_name |-> "engine_5_diagnostic",
               student_id |-> last_estimate.student_id,
               concept_id |-> last_estimate.concept_id,
               predicted_mastery |-> last_estimate.mastery_probability,
               predicted_tier |-> last_estimate.recommended_tier,
               predicted_at |-> 0])
    /\ UNCHANGED <<bkt, harnessVars, storeVars, raceVars, cls, report, fb, workflowVars>>

NextCarried ==
    \/ \E pr \in Pairs :
          \/ EstimateStudentMastery(pr[1], pr[2])
          \/ \E observations \in SeqsUpTo(MaxAssessment) :
                UpdateMasteryFromAssessment(pr[1], pr[2], observations)
    \/ LogEstimate("diag_1")

SpecCarried == InitCarried /\ [][NextCarried]_vars

---------------------------------------------------------------------------
(* Properties of what Engine 5 hands out, stated for SpecCarried *)

\* C29: every estimate Engine 5 returns and every prediction it logs has the tier that the
\* thresholds (>= 0.75 Tier 1, >= 0.45 Tier 2, else Tier 3) give for the mastery value it
\* carries, the mastery rounded to 4 decimals.
C29_TierOfCarriedMastery ==
    /\ last_estimate # NoEstimate =>
          last_estimate.recommended_tier = ClaimTier(last_estimate.mastery_probability)
    /\ \A i \in DOMAIN predictions :
          predictions[i].predicted_tier = ClaimTier(predictions[i].predicted_mastery)

---------------------------------------------------------------------------
(* Reports built on too few outcomes, stated for SpecFeedback *)

\* C30: a FeedbackReport of generate_feedback whose quality is "insufficient_data" (fewer
\* than 10 predictions with outcomes, the report without any outcome included) contains no
\* parameter_updates.
C30_NoUpdatesWithoutData ==
    (report.op = "generate_feedback"
        /\ report.result.quality_assessment = "insufficient_data") =>
            report.result.parameter_updates = <<>>

=============================================================================
